---------------------------- MODULE Spec2Model ----------------------------
(***************************************************************************)
(* The ballot session engine of gamevote (src/src/main.rs, start_vote).    *)
(*                                                                         *)
(* One session: a Vote (uservotes, submittedvotes) shared by the handlers  *)
(* of the select loop, the public message with its vote count, and the     *)
(* private (ephemeral) view of each user.  The select loop runs one        *)
(* handler at a time to completion, so each handler is one action.  The    *)
(* collectors' filters are the guards of the handlers: an interaction is   *)
(* delivered only when it comes from the message recorded for its user.    *)
(*                                                                         *)
(* What a user can press is what the code has put on that user's message:  *)
(* `shown` is the content of the message recorded in votemsg (the ballot   *)
(* page with its choice, "<", ">" and Submit buttons, or the "Vote         *)
(* Submitted" stub with one button), and `prompt` is the modal the user    *)
(* has open, with the message it was opened from.  The results of a submit *)
(* are a new message and leave the vote message as it is.                  *)
(*                                                                         *)
(* `last` and `out` record the handler that ran last, its locals and the   *)
(* responses it sent; `steps` counts the handlers run and bounds a run.    *)
(* The results message carries the number of voters, the winners and the   *)
(* totals.  The order in which a HashMap is iterated is unspecified: each   *)
(* computation of the results takes some order of submittedvotes and of     *)
(* the map of each ballot.                                                  *)
(*                                                                         *)
(* Three specifications share the variables.  Spec runs the handlers of    *)
(* the select loop one after the other, each as one step.  LoopSpec is the *)
(* loop itself: interactions arrive at the three collectors, whose filters *)
(* keep or drop them, select! takes any collector that holds one, the      *)
(* handler runs up to the await of its response, the timeouts of the       *)
(* collectors elapse and the public message gets its final edit (LoopLive  *)
(* adds the fairness of time and of the surface's calls).  SetupSpec is    *)
(* the way to start_vote: the wizard and the suggestion phase.             *)
(*                                                                         *)
(* f32 values are kept as a class (finite, NaN, +inf, -inf) and, when      *)
(* finite, an integer count of ten-thousandths: 6.0 is 60000.  Every text  *)
(* of RawTexts parses to a value that is exact in that unit, and no sum of *)
(* them comes within f32 rounding of the limit of are_valid.               *)
(***************************************************************************)
EXTENDS Integers, Sequences, FiniteSets, TLC

VARIABLES
    votetype,        \* vi.kind
    size,            \* vals.len()
    vote_once,       \* vi.vote_once
    uservotes,       \* Vote.uservotes: uid -> UserVote
    submittedvotes,  \* Vote.submittedvotes: uid -> CastVotes
    num_votes,       \* the count shown on the public message (basemsg)
    nextmsg,         \* the id the next ephemeral message gets
    shown,           \* what the message uservotes[u].votemsg displays
    prompt,          \* the modal each user has open, if any
    last,            \* the handler that ran last, with its locals
    out,             \* the responses the last handler sent
    steps,           \* handlers run so far
    stage,           \* where the vote is: wizard, suggestions, vote, closed
    take_sugs,       \* vi.take_sugs
    show_at_timeout, \* vi.show_at_timeout
    queue,           \* the interactions each collector holds for the loop
    timedout,        \* the collectors whose timeout has elapsed
    pc,              \* the select loop: at select!, or at an await of a handler
    cur,             \* the interaction whose handler is at its await
    lock,            \* the guard of vote the loop holds while it is suspended
    arrived,         \* the interaction that arrived last, with its number
    applied,         \* per user, the number of the last interaction handled
    owner            \* the user of each ephemeral message, by message id

\* Where the vote is, and the settings of the wizard the handlers do not read.
setupvars == <<stage, take_sugs, show_at_timeout>>

\* The state of the collectors and of the select loop.
loopvars == <<queue, timedout, pc, cur, lock, arrived, applied, owner>>

vars == <<votetype, size, vote_once, uservotes, submittedvotes, num_votes,
          nextmsg, shown, prompt, last, out, steps, setupvars, loopvars>>

----------------------------------------------------------------------------
(* Bounds of the model. *)

\* Handlers run in one session.
MaxSteps == 7

\* Ephemeral messages created in one session.
MaxMsg == 2

\* The largest vals.len() the functions of the paging and of get_ballot are
\* applied to.
MaxChoices == 9

Users == {"u1", "u2"}

\* The sessions explored: vi.kind, vals.len() and vi.vote_once of each.
Session(kind, n, once) == [kind |-> kind, size |-> n, vote_once |-> once]

\* Texts a user types into the value modal (at most 5 characters).
RawTexts == {"6.0", "5.0", "4.0", "-10", "11", "abc", "NaN"}

----------------------------------------------------------------------------
(* Program constants. *)

PERPAGE == 4

\* 10.0 and 10.0001f32, in ten-thousandths.
SCORE_MAX == 100000

LSCORE_LIMIT == 100001

VOTE_APPROVAL == "Approval"

VOTE_SCORE == "Score"

VOTE_LSCORE == "Limited Score"

VOTE_BORDA == "Borda"

get_all == {VOTE_APPROVAL, VOTE_SCORE, VOTE_LSCORE, VOTE_BORDA}

ID_VOTE_LEFT == "VoteLeft"

ID_VOTE_RIGHT == "VoteRight"

NoUser == "nobody"

Sessions ==
    {Session(VOTE_APPROVAL, 3, FALSE), Session(VOTE_APPROVAL, 3, TRUE),
     Session(VOTE_SCORE, 2, FALSE),
     Session(VOTE_LSCORE, 2, FALSE), Session(VOTE_LSCORE, 2, TRUE),
     Session(VOTE_BORDA, 3, FALSE), Session(VOTE_BORDA, 3, TRUE),
     Session(VOTE_BORDA, 5, FALSE)}

----------------------------------------------------------------------------
(* f32 *)

F(x) == [cls |-> "fin", x |-> x]

NaN == [cls |-> "nan", x |-> 0]

PInf == [cls |-> "pinf", x |-> 0]

NInf == [cls |-> "ninf", x |-> 0]

\* f32::abs
fabs(a) ==
    CASE a.cls = "fin" -> F(IF a.x < 0 THEN -a.x ELSE a.x)
      [] a.cls = "nan" -> NaN
      [] OTHER -> PInf

\* f32 +
fadd(a, b) ==
    CASE a.cls = "nan" \/ b.cls = "nan" -> NaN
      [] a.cls = "fin" /\ b.cls = "fin" -> F(a.x + b.x)
      [] a.cls = "fin" -> b
      [] b.cls = "fin" -> a
      [] a.cls = b.cls -> a
      [] OTHER -> NaN

\* f32 <  (false when either side is NaN)
flt(a, b) ==
    CASE a.cls = "nan" \/ b.cls = "nan" -> FALSE
      [] a.cls = "fin" /\ b.cls = "fin" -> a.x < b.x
      [] a.cls = "ninf" -> b.cls # "ninf"
      [] b.cls = "pinf" -> a.cls # "pinf"
      [] OTHER -> FALSE

\* f32 >
fgt(a, b) == flt(b, a)

\* str::parse::<f32>() on the texts of RawTexts: Ok(value) or Err.
parse_f32(text) ==
    CASE text = "6.0" -> [ok |-> TRUE, v |-> F(60000)]
      [] text = "5.0" -> [ok |-> TRUE, v |-> F(50000)]
      [] text = "4.0" -> [ok |-> TRUE, v |-> F(40000)]
      [] text = "-10" -> [ok |-> TRUE, v |-> F(-100000)]
      [] text = "11" -> [ok |-> TRUE, v |-> F(110000)]
      [] text = "NaN" -> [ok |-> TRUE, v |-> NaN]
      [] text = "inf" -> [ok |-> TRUE, v |-> PInf]
      [] OTHER -> [ok |-> FALSE, v |-> F(0)]

----------------------------------------------------------------------------
(* VoteType and CastVotes *)

Idx(n) == 0 .. (n - 1)

\* A map with one more entry (HashMap::insert).
Insert(m, k, x) == [j \in (DOMAIN m) \cup {k} |-> IF j = k THEN x ELSE m[j]]

EmptyMap == [j \in {} |-> 0]

Range(s) == {s[j] : j \in DOMAIN s}

is_bad_value(vt, v, n) ==
    CASE vt = VOTE_APPROVAL -> FALSE
      [] vt \in {VOTE_SCORE, VOTE_LSCORE} ->
            flt(v, F(-SCORE_MAX)) \/ fgt(v, F(SCORE_MAX))
      [] OTHER ->
            \/ v.cls # "fin"
            \/ v.x % 10000 # 0
            \/ v.x <= 0
            \/ v.x > n * 10000

\* A Limited Score vote gets the votes of an Approval vote.
CastVotes_new_lscore_select(vt) ==
    CASE vt \in {VOTE_APPROVAL, VOTE_LSCORE} ->
            [tag |-> "Select", v |-> <<>>, m |-> EmptyMap]
      [] vt = VOTE_SCORE -> [tag |-> "Score", v |-> <<>>, m |-> EmptyMap]
      [] OTHER -> [tag |-> "Rank", v |-> <<>>, m |-> EmptyMap]

CastVotes_new(vt) ==
    CASE vt = VOTE_APPROVAL -> [tag |-> "Select", v |-> <<>>, m |-> EmptyMap]
      [] vt \in {VOTE_SCORE, VOTE_LSCORE} ->
            [tag |-> "Score", v |-> <<>>, m |-> EmptyMap]
      [] OTHER -> [tag |-> "Rank", v |-> <<>>, m |-> EmptyMap]

\* The f32 sum of the absolute values of a score map, in any iteration order.
RECURSIVE abssum_of(_, _)
abssum_of(m, keys) ==
    IF keys = {} THEN F(0)
    ELSE LET k == CHOOSE k \in keys : TRUE
         IN  fadd(abssum_of(m, keys \ {k}), fabs(m[k]))

\* The sum of the scores as they are, without abs().
RECURSIVE sum_of(_, _)
sum_of(m, keys) ==
    IF keys = {} THEN F(0)
    ELSE LET k == CHOOSE k \in keys : TRUE
         IN  fadd(sum_of(m, keys \ {k}), m[k])

are_valid_noabs(votes, vt, n) ==
    CASE vt = VOTE_APPROVAL -> TRUE
      [] vt = VOTE_SCORE -> TRUE
      [] vt = VOTE_LSCORE -> flt(sum_of(votes.m, DOMAIN votes.m), F(LSCORE_LIMIT))
      [] OTHER ->
            \A i \in Idx(n) : i \in DOMAIN votes.m /\ ~(votes.m[i] < 1)

\* A choice without a rank counts as ranked size-1.
are_valid_default_rank(votes, vt, n) ==
    CASE vt = VOTE_APPROVAL -> TRUE
      [] vt = VOTE_SCORE -> TRUE
      [] vt = VOTE_LSCORE ->
            flt(abssum_of(votes.m, DOMAIN votes.m), F(LSCORE_LIMIT))
      [] OTHER ->
            \A i \in Idx(n) :
               ~((IF i \in DOMAIN votes.m THEN votes.m[i] ELSE n - 1) < 1)

are_valid(votes, vt, n) ==
    CASE vt = VOTE_APPROVAL -> TRUE
      [] vt = VOTE_SCORE -> TRUE
      [] vt = VOTE_LSCORE ->
            flt(abssum_of(votes.m, DOMAIN votes.m), F(LSCORE_LIMIT))
      [] OTHER ->
            \A i \in Idx(n) : i \in DOMAIN votes.m /\ ~(votes.m[i] < 1)

\* No defaults are added.
get_ballot_nofill(votes, n) == votes

\* The default is written over the values that are set, too.
get_ballot_overwrite(votes, n) ==
    CASE votes.tag = "Select" -> votes
      [] votes.tag = "Score" ->
            [votes EXCEPT !.m = [i \in (DOMAIN votes.m) \cup Idx(n) |->
                IF i \in Idx(n) THEN F(0) ELSE votes.m[i]]]
      [] OTHER ->
            [votes EXCEPT !.m = [i \in (DOMAIN votes.m) \cup Idx(n) |->
                IF i \in Idx(n) THEN n - 1 ELSE votes.m[i]]]

get_ballot(votes, n) ==
    CASE votes.tag = "Select" -> votes
      [] votes.tag = "Score" ->
            [votes EXCEPT !.m = [i \in (DOMAIN votes.m) \cup Idx(n) |->
                IF i \in DOMAIN votes.m THEN votes.m[i] ELSE F(0)]]
      [] OTHER ->
            [votes EXCEPT !.m = [i \in (DOMAIN votes.m) \cup Idx(n) |->
                IF i \in DOMAIN votes.m THEN votes.m[i] ELSE n - 1]]


\* The choice is pushed whether or not it is selected.
toggle_selection_push(v, num) == Append(v, num)

\* The selection with num added if absent, removed if present.
toggle_selection(v, num) ==
    IF num \in Range(v)
    THEN SelectSeq(v, LAMBDA x : x # num)
    ELSE Append(v, num)

\* The rank goes back to 0, not 1.
increment_rank_wrap0(m, num, n) ==
    LET rank == IF num \in DOMAIN m THEN m[num] ELSE n
    IN  Insert(m, num, IF rank + 1 > n THEN 0 ELSE rank + 1)

\* The rank that goes up is that of the next choice.
increment_rank_neighbour(m, num, n) ==
    LET o == (num + 1) % n
        rank == IF o \in DOMAIN m THEN m[o] ELSE n
    IN  Insert(m, o, IF rank + 1 > n THEN 1 ELSE rank + 1)

\* rank++ of num, from vals.len() when unset, back to 1 past vals.len().
increment_rank(m, num, n) ==
    LET rank == IF num \in DOMAIN m THEN m[num] ELSE n
    IN  Insert(m, num, IF rank + 1 > n THEN 1 ELSE rank + 1)

\* HashMap::insert(num, score) of the modal handler.
set_score(m, num, score) == Insert(m, num, score)

\* The orders in which a HashMap with the keys S can be iterated: the order
\* is unspecified, so every sequence of the keys is one.
iter_orders(S) ==
    {p \in [1 .. Cardinality(S) -> S] :
        \A a, b \in 1 .. Cardinality(S) : p[a] = p[b] => a = b}

\* Vec::sort_by on the rank, a stable sort: the keys of vt with rank r, in
\* the order vt has them, before those of the ranks above r.
RECURSIVE sort_by_rank(_, _, _, _)
sort_by_rank(vt, m, r, top) ==
    IF r > top THEN <<>>
    ELSE SelectSeq(vt, LAMBDA k : m[k] = r) \o sort_by_rank(vt, m, r + 1, top)

\* The highest rank of a rank map, 0 for the empty map.
top_rank(m) ==
    IF DOMAIN m = {} THEN 0
    ELSE CHOOSE r \in Range(m) : \A q \in Range(m) : q <= r

\* The keys come out in the order of the iteration, unsorted.
get_vote_vec_unsorted(votes, iter) ==
    IF votes.tag = "Select" THEN votes.v ELSE iter

\* The Vec handed to the tally: the selection, or the keys of the rank map
\* pushed in the order `iter` of the iteration and then sorted by rank.
get_vote_vec(votes, iter) ==
    IF votes.tag = "Select" THEN votes.v
    ELSE sort_by_rank(iter, votes.m, 0, top_rank(votes.m))

\* The (choice, score) pairs of a score map in the order of the iteration.
get_vote_weight_vec(votes, iter) ==
    [j \in 1 .. Len(iter) |-> <<iter[j], votes.m[iter[j]]>>]

----------------------------------------------------------------------------
(* The tallies of the tallystick crate, which get_results feeds and         *)
(* tally_str! reads.  A tally is told nothing but the ballots added to it,  *)
(* so its totals and winners range over the choices some ballot names.      *)

\* The choices named by the ballots, each a Vec of choices.
Named(ballots) == UNION {Range(ballots[j]) : j \in DOMAIN ballots}

\* The places <<ballot, position>> at which the ballots name choice c.
places_of(ballots, c) ==
    UNION {{<<j, k>> : k \in {q \in DOMAIN ballots[j] : ballots[j][q] = c}} :
              j \in DOMAIN ballots}

\* ApprovalTally: one point for every ballot a choice is on.
approval_totals(ballots) ==
    [c \in Named(ballots) |-> Cardinality(places_of(ballots, c))]

\* The points of a set of places when position k of a ballot is worth n - k.
RECURSIVE sum_points(_, _)
sum_points(places, n) ==
    IF places = {} THEN 0
    ELSE LET pl == CHOOSE pl \in places : TRUE
         IN  (n - pl[2]) + sum_points(places \ {pl}, n)

\* BordaTally, Variant::Borda: with n choices named, the first of a ballot
\* gets n - 1 points, the second n - 2, and so on.
borda_totals(ballots) ==
    [c \in Named(ballots) |->
        sum_points(places_of(ballots, c), Cardinality(Named(ballots)))]

\* ScoreTally::add of the pairs from the k-th on: each weight is added to
\* the running total of its choice, which starts at 0.
RECURSIVE score_add(_, _, _)
score_add(tot, pairs, k) ==
    IF k > Len(pairs) THEN tot
    ELSE LET c == pairs[k][1]
             w == pairs[k][2]
             old == IF c \in DOMAIN tot THEN tot[c] ELSE F(0)
         IN  score_add(Insert(tot, c, fadd(old, w)), pairs, k + 1)

\* ScoreTally after the ballots from the j-th on are added.
RECURSIVE score_totals_from(_, _, _)
score_totals_from(tot, ballots, j) ==
    IF j > Len(ballots) THEN tot
    ELSE score_totals_from(score_add(tot, ballots[j], 1), ballots, j + 1)

score_totals(ballots) == score_totals_from(EmptyMap, ballots, 1)

\* winners().all(): the choices no other choice has a higher total than;
\* the totals are f32 values (f32) or counts.
tally_winners(totals, f32) ==
    {c \in DOMAIN totals : \A d \in DOMAIN totals :
        ~(IF f32 THEN flt(totals[c], totals[d]) ELSE totals[c] < totals[d])}

----------------------------------------------------------------------------
(* The session *)

\* num_pages of a vote with n values.
pages_of(n) == ((n - 1) \div PERPAGE) + 1

num_pages == pages_of(size)

\* ">" goes on past the last page.
nav_page_nowrap(page, dir, np) ==
    IF ~dir
    THEN page + 1
    ELSE IF page = 0 THEN np - 1 ELSE page - 1

\* "<" goes right and ">" goes left.
nav_page_swapped(page, dir, np) ==
    IF dir
    THEN IF page + 1 >= np THEN 0 ELSE page + 1
    ELSE IF page = 0 THEN np - 1 ELSE page - 1

\* The page after a press of "<" (dir) or ">" (not dir), of np pages.
nav_page_in(page, dir, np) ==
    IF ~dir
    THEN IF page + 1 >= np THEN 0 ELSE page + 1
    ELSE IF page = 0 THEN np - 1 ELSE page - 1

nav_page(page, dir) == nav_page_in(page, dir, num_pages)

UserVote_new == [votes |-> CastVotes_new(votetype), votemsg |-> 0, page |-> 0]

NoPrompt == [num |-> -1, mid |-> 0]

\* The record of a handler's run: its interaction and its locals.
Ran(op, uid) ==
    [op |-> op, uid |-> uid, num |-> -1, text |-> "", dir |-> FALSE,
     dosubmit |-> FALSE, valid_submission |-> FALSE, isfirst |-> FALSE,
     showresults |-> FALSE, badvalue |-> FALSE]

\* A response: d is "view", "modal", "results" or "count".
Resp(d, to) ==
    [d |-> d, to |-> to, first |-> FALSE, stub |-> FALSE, page |-> 0,
     extra |-> "", n |-> 0, cur |-> F(0), totals |-> EmptyMap, winners |-> {}]

\* The ephemeral message of uid after the handler's writes: the page of the
\* ballot, or the "Vote Submitted" stub when vote_once and uid has submitted.
user_vote_message(uid, extra, first, uvs, subs) ==
    LET can_vote == ~(vote_once /\ uid \in DOMAIN subs)
    IN  [Resp("view", uid) EXCEPT !.first = first, !.stub = ~can_vote,
                                  !.page = uvs[uid].page, !.extra = extra]

\* The public message after an edit with num_votes = n.
setup_base_message(n) == [Resp("count", "all") EXCEPT !.n = n]

\* The orders of one computation of the results: that of the iteration of
\* submittedvotes and that of the map of each ballot in it.
hash_orders(subs) ==
    LET keys == [u \in DOMAIN subs |-> iter_orders(DOMAIN subs[u].m)]
        any == UNION {keys[u] : u \in DOMAIN subs}
    IN  {[users |-> o, keys |-> k] :
            o \in iter_orders(DOMAIN subs),
            k \in {f \in [DOMAIN subs -> any] :
                      \A u \in DOMAIN subs : f[u] \in keys[u]}}

\* The results message: the ballots of submittedvotes are added to the tally
\* of the vote type in the order hm.users, each turned into a Vec with its
\* map iterated in the order hm.keys; the message names the number of
\* ballots added, the winners and the totals.
get_results(uid, subs, hm) ==
    LET order == hm.users
        vecs == [j \in 1 .. Len(order) |->
                    get_vote_vec(subs[order[j]], hm.keys[order[j]])]
        wvecs == [j \in 1 .. Len(order) |->
                     get_vote_weight_vec(subs[order[j]], hm.keys[order[j]])]
        totals == CASE votetype = VOTE_APPROVAL -> approval_totals(vecs)
                    [] votetype \in {VOTE_SCORE, VOTE_LSCORE} -> score_totals(wvecs)
                    [] OTHER -> borda_totals(vecs)
        winners == tally_winners(totals, votetype \in {VOTE_SCORE, VOTE_LSCORE})
    IN  [Resp("results", uid) EXCEPT
            !.n = Len(order), !.totals = totals, !.winners = winners]

\* What the message shows once `view` is sent.
Display(view) == IF view.stub THEN "stub" ELSE "ballot"

\* The buttons create_user_message puts on a page.
PageItems(page) ==
    {vali \in Idx(size) : page * PERPAGE <= vali /\ vali < (page * PERPAGE) + PERPAGE}

nonav(page) == size <= PERPAGE /\ page = 0

\* A filter of nav_col that lets the interactions of users without an entry
\* through to the handlers.
nav_filter_any_user(uid, mid) ==
    uid \notin DOMAIN uservotes \/ mid = uservotes[uid].votemsg

\* A filter that asks for an entry of the user only.
nav_filter_any_view(uid, mid) == uid \in DOMAIN uservotes

\* The filter of nav_col: the interaction comes from the user's vote message.
nav_filter(uid, mid) ==
    uid \in DOMAIN uservotes /\ mid = uservotes[uid].votemsg

\* A modal filter that lets modals of users without entry through.
mod_filter_any_user(uid, mid) ==
    uid \notin DOMAIN uservotes \/ mid = uservotes[uid].votemsg

\* The filter of mod_col.
mod_filter(uid, mid) ==
    uid \in DOMAIN uservotes /\ mid = uservotes[uid].votemsg

MsgIds == 1 .. MaxMsg

\* The collectors of start_vote, in the order they are built.
Collectors == <<"mainbtn_col", "nav_col", "mod_col">>

ID_VOTE_BTN == "MainVoteBtn"

ID_VOTE_SUBMIT == "VoteSubmit"

ID_VOTE_VAL_PREFIX == "VoteVal"

ID_VOTE_VAL_INPUT == "ValInModal"

\* An interaction: the collector it goes to, its user, the message it comes
\* from, its custom id with the number of the choice and the text of a
\* modal, the number of its arrival, whether the collector kept it, and the
\* id of the message sent in response to a "Vote!" press.
NoInteraction ==
    [col |-> "", uid |-> NoUser, mid |-> 0, id |-> "", num |-> -1, text |-> "",
     seq |-> 0, kept |-> FALSE, newmsg |-> 0]

\* The collectors and the select loop when start_vote enters the loop.
loop_start ==
    /\ queue = [c \in Range(Collectors) |-> <<>>]
    /\ timedout = {}
    /\ pc = "select"
    /\ cur = NoInteraction
    /\ lock = "free"
    /\ arrived = NoInteraction
    /\ applied = [u \in Users |-> 0]
    /\ owner = <<>>

Init ==
    /\ stage = "vote"
    /\ take_sugs = FALSE
    /\ show_at_timeout = TRUE
    /\ loop_start
    /\ \E s \in Sessions :
          /\ votetype = s.kind
          /\ size = s.size
          /\ vote_once = s.vote_once
    /\ uservotes = EmptyMap
    /\ submittedvotes = EmptyMap
    /\ num_votes = 0
    /\ nextmsg = 1
    /\ shown = [u \in Users |-> "none"]
    /\ prompt = [u \in Users |-> NoPrompt]
    /\ last = Ran("start", NoUser)
    /\ out = <<setup_base_message(0)>>
    /\ steps = 0

\* The user is inserted anew at every press.
init_user_always(uid) == Insert(uservotes, uid, UserVote_new)

\* The map is left with the user of the press alone.
init_user_alone(uid) ==
    Insert(EmptyMap, uid,
           IF uid \in DOMAIN uservotes THEN uservotes[uid] ELSE UserVote_new)

\* lookup / init user: uservotes with uid inserted if it was not there.
init_user(uid) ==
    IF uid \in DOMAIN uservotes THEN uservotes
    ELSE Insert(uservotes, uid, UserVote_new)

\* mainbtn_col: the "Vote!" button of the public message.
OpenBallotRequested(uid) ==
    /\ steps < MaxSteps
    /\ nextmsg \in MsgIds
    /\ LET uv1 == init_user(uid)
           view == user_vote_message(uid, "", TRUE, uv1, submittedvotes)
       IN  /\ uservotes' = [uv1 EXCEPT ![uid].votemsg = nextmsg]
           /\ out' = <<view>>
           /\ shown' = [shown EXCEPT ![uid] = Display(view)]
    /\ nextmsg' = nextmsg + 1
    /\ last' = Ran("open", uid)
    /\ steps' = steps + 1
    /\ UNCHANGED <<votetype, size, vote_once, submittedvotes, num_votes, prompt>>
    /\ UNCHANGED <<setupvars, loopvars>>

\* nav_col, ID_VOTE_LEFT | ID_VOTE_RIGHT.
Navigate(uid, lr) ==
    /\ steps < MaxSteps
    /\ \E mid \in MsgIds : nav_filter(uid, mid)
    /\ shown[uid] = "ballot"
    /\ ~nonav(uservotes[uid].page)
    /\ LET dir == (lr = ID_VOTE_LEFT)
           uv1 == [uservotes EXCEPT ![uid].page = nav_page(@, dir)]
           view == user_vote_message(uid, "", FALSE, uv1, submittedvotes)
       IN  /\ uservotes' = uv1
           /\ out' = <<view>>
           /\ shown' = [shown EXCEPT ![uid] = Display(view)]
           /\ last' = [Ran("nav", uid) EXCEPT !.dir = dir]
    /\ steps' = steps + 1
    /\ UNCHANGED <<votetype, size, vote_once, submittedvotes, num_votes,
                   nextmsg, prompt>>
    /\ UNCHANGED <<setupvars, loopvars>>

\* The vote_once check before a submit: isfirst after the read of
\* submittedvotes, and whether the submit goes on (dosubmit).
once_isfirst(uid) == vote_once /\ uid \notin DOMAIN submittedvotes

\* The submit goes on although the user has voted.
once_dosubmit_always(uid) == TRUE

once_dosubmit(uid) == ~(vote_once /\ ~once_isfirst(uid))

\* The ballot is stored whether or not the votes are valid.
submit_write_unchecked(uid) ==
    LET votes == uservotes[uid].votes
        subs == Insert(submittedvotes, uid, get_ballot(votes, size))
        fresh == uid \notin DOMAIN submittedvotes
    IN  [valid_submission |-> are_valid(votes, votetype, size),
         subs |-> subs,
         subcount |-> IF fresh THEN Cardinality(DOMAIN subs) ELSE 0,
         isfirst |-> fresh]

\* The ballot of the submit replaces all of submittedvotes.
submit_write_alone(uid) ==
    LET votes == uservotes[uid].votes
        valid == are_valid(votes, votetype, size)
        subs == IF valid
                THEN Insert(EmptyMap, uid, get_ballot(votes, size))
                ELSE submittedvotes
        fresh == valid /\ uid \notin DOMAIN submittedvotes
    IN  [valid_submission |-> valid,
         subs |-> subs,
         subcount |-> IF fresh THEN Cardinality(DOMAIN subs) ELSE 0,
         isfirst |-> fresh]

\* The write block of a submit: the validity of the user's votes, and with
\* valid votes the ballot put into submittedvotes; subcount and isfirst are
\* set when the insert found no earlier ballot.
submit_write(uid) ==
    LET votes == uservotes[uid].votes
        valid == are_valid(votes, votetype, size)
        subs == IF valid
                THEN Insert(submittedvotes, uid, get_ballot(votes, size))
                ELSE submittedvotes
        fresh == valid /\ uid \notin DOMAIN submittedvotes
    IN  [valid_submission |-> valid,
         subs |-> subs,
         subcount |-> IF fresh THEN Cardinality(DOMAIN subs) ELSE 0,
         isfirst |-> fresh]

\* Every valid submit edits the public message.
count_edit_always(isfirst) == TRUE

\* Whether a valid submit edits the public message.
count_edit(isfirst) == isfirst

\* The results computed from the ballots stored before this submit.
results_read_before_write(subs) == submittedvotes

\* The map the results of a submit are computed from: the read lock is
\* taken after the write block, so it is the map `subs` that block left.
results_read(subs) == subs

\* nav_col, ID_VOTE_SUBMIT.
SubmitRequested(uid) ==
    /\ steps < MaxSteps
    /\ \E mid \in MsgIds : nav_filter(uid, mid)
    /\ shown[uid] \in {"ballot", "stub"}
    /\ LET dosubmit == once_dosubmit(uid)
           w == submit_write(uid)
           valid == dosubmit /\ w.valid_submission
           isfirst == once_isfirst(uid) \/ (dosubmit /\ w.isfirst)
           subs == IF dosubmit THEN w.subs ELSE submittedvotes
           edit == valid /\ count_edit(isfirst)
           showresults == ~dosubmit \/ valid
           view == user_vote_message(uid, "invalid", FALSE, uservotes, subs)
       IN  /\ submittedvotes' = subs
           /\ num_votes' = IF edit THEN w.subcount ELSE num_votes
           /\ \E results \in IF showresults
                             THEN {<<get_results(uid, results_read(subs), hm)>> :
                                      hm \in hash_orders(results_read(subs))}
                             ELSE {<<>>} :
                 out' = (IF dosubmit /\ ~valid THEN <<view>> ELSE <<>>)
                        \o (IF edit THEN <<setup_base_message(w.subcount)>> ELSE <<>>)
                        \o results
           /\ shown' = IF dosubmit /\ ~valid
                       THEN [shown EXCEPT ![uid] = Display(view)]
                       ELSE shown
           /\ last' = [Ran("submit", uid) EXCEPT
                          !.dosubmit = dosubmit, !.valid_submission = valid,
                          !.isfirst = isfirst, !.showresults = showresults]
    /\ steps' = steps + 1
    /\ UNCHANGED <<votetype, size, vote_once, uservotes, nextmsg, prompt>>
    /\ UNCHANGED <<setupvars, loopvars>>

\* The value a press of a choice button leaves in the user's votes.
toggle_votes(votes, num) ==
    CASE votes.tag = "Select" -> [votes EXCEPT !.v = toggle_selection(@, num)]
      [] votes.tag = "Score" -> votes
      [] OTHER -> [votes EXCEPT !.m = increment_rank(@, num, size)]

\* The modal always opens with 0.0.
current_score_zero(votes, num) == F(0)

\* The value the modal is opened with.
current_score(votes, num) ==
    IF num \in DOMAIN votes.m THEN votes.m[num] ELSE F(0)

\* nav_col, a button VoteVal<num>.
ToggleChoice(uid, num) ==
    /\ steps < MaxSteps
    /\ \E mid \in MsgIds : nav_filter(uid, mid)
    /\ shown[uid] = "ballot"
    /\ num \in PageItems(uservotes[uid].page)
    /\ LET votes == uservotes[uid].votes
           refresh_msg == votes.tag # "Score"
           uv1 == [uservotes EXCEPT ![uid].votes = toggle_votes(@, num)]
           view == user_vote_message(uid, "", FALSE, uv1, submittedvotes)
           modal == [Resp("modal", uid) EXCEPT
                        !.n = num, !.cur = current_score(votes, num)]
       IN  /\ uservotes' = uv1
           /\ out' = IF refresh_msg THEN <<view>> ELSE <<modal>>
           /\ shown' = IF refresh_msg
                       THEN [shown EXCEPT ![uid] = Display(view)]
                       ELSE shown
           /\ prompt' = IF refresh_msg THEN prompt
                        ELSE [prompt EXCEPT ![uid] =
                                 [num |-> num, mid |-> uservotes[uid].votemsg]]
    /\ last' = [Ran("toggle", uid) EXCEPT !.num = num]
    /\ steps' = steps + 1
    /\ UNCHANGED <<votetype, size, vote_once, submittedvotes, num_votes, nextmsg>>
    /\ UNCHANGED <<setupvars, loopvars>>

\* The score the modal handler stores for a text, and whether it is bad.
modal_score(text) ==
    LET p == parse_f32(text)
        badvalue == IF p.ok THEN is_bad_value(votetype, p.v, size) ELSE TRUE
    IN  [badvalue |-> badvalue, score |-> IF badvalue THEN F(0) ELSE p.v]

\* mod_col: the modal of choice prompt[uid].num comes back with `text`.
ValueEntered(uid, text) ==
    /\ steps < MaxSteps
    /\ prompt[uid].num >= 0
    /\ mod_filter(uid, prompt[uid].mid)
    /\ uservotes[uid].votes.tag = "Score"
    /\ LET num == prompt[uid].num
           r == modal_score(text)
           errresp == IF r.badvalue THEN "Bad Value" ELSE ""
           uv1 == [uservotes EXCEPT ![uid].votes.m = set_score(@, num, r.score)]
           view == user_vote_message(uid, errresp, FALSE, uv1, submittedvotes)
       IN  /\ uservotes' = uv1
           /\ out' = <<view>>
           /\ shown' = [shown EXCEPT ![uid] = Display(view)]
           /\ last' = [Ran("value", uid) EXCEPT
                          !.num = num, !.text = text, !.badvalue = r.badvalue]
    /\ prompt' = [prompt EXCEPT ![uid] = NoPrompt]
    /\ steps' = steps + 1
    /\ UNCHANGED <<votetype, size, vote_once, submittedvotes, num_votes, nextmsg>>
    /\ UNCHANGED <<setupvars, loopvars>>

Next ==
    \/ \E uid \in Users : OpenBallotRequested(uid)
    \/ \E uid \in Users, lr \in {ID_VOTE_LEFT, ID_VOTE_RIGHT} : Navigate(uid, lr)
    \/ \E uid \in Users : SubmitRequested(uid)
    \/ \E uid \in Users, num \in Idx(size) : ToggleChoice(uid, num)
    \/ \E uid \in Users, text \in RawTexts : ValueEntered(uid, text)

Spec == Init /\ [][Next]_vars

----------------------------------------------------------------------------
(* The collectors and the select loop                                       *)
(*                                                                          *)
(* A press of a button or the sending of a modal is an interaction.  Each   *)
(* of the three collectors runs its filter when the interaction arrives and *)
(* keeps what passes for the loop; select! takes the next interaction of    *)
(* any collector that holds one and whose timeout has not elapsed, and runs *)
(* its handler up to the await of the response.  The loop takes nothing     *)
(* else until that await returns.  When the timeouts of all three           *)
(* collectors have elapsed the else branch leaves the loop and the public   *)
(* message is edited a last time.                                           *)

\* Interactions that arrive in one vote.
MaxArrivals == 3

\* A user who never presses "Vote!".
Outsider == "u3"

\* The id of a message of another vote in the channel: the ephemeral
\* messages of this vote have the ids 1 .. MaxArrivals at most.
ForeignMsg == MaxArrivals + 1

\* Texts typed into the value modal.
LoopTexts == {"6.0"}

LoopSession(kind, n, once, show) ==
    [kind |-> kind, size |-> n, vote_once |-> once, show_at_timeout |-> show]

LoopSessions ==
    {LoopSession(VOTE_SCORE, 2, FALSE, TRUE), LoopSession(VOTE_APPROVAL, 5, TRUE, FALSE)}

\* start_vote enters the loop: nobody has pressed anything.
LoopFresh ==
    /\ \E s \in LoopSessions :
          /\ votetype = s.kind
          /\ size = s.size
          /\ vote_once = s.vote_once
          /\ show_at_timeout = s.show_at_timeout
    /\ stage = "vote"
    /\ take_sugs = FALSE
    /\ loop_start
    /\ uservotes = EmptyMap
    /\ submittedvotes = EmptyMap
    /\ num_votes = 0
    /\ nextmsg = 1
    /\ shown = [u \in Users |-> "none"]
    /\ prompt = [u \in Users |-> NoPrompt]
    /\ last = Ran("start", NoUser)
    /\ out = <<setup_base_message(0)>>
    /\ steps = 0

\* The Score vote of LoopSessions after its first user has pressed "Vote!"
\* and the handler has sent the ephemeral message 1 and recorded it.  The
\* arrivals are numbered from this state on.
LoopOpened ==
    LET uid == CHOOSE u \in Users : TRUE
        uv1 == (uid :> [votes |-> CastVotes_new(VOTE_SCORE), votemsg |-> 1, page |-> 0])
    IN  /\ votetype = VOTE_SCORE
        /\ size = 2
        /\ vote_once = FALSE
        /\ show_at_timeout = TRUE
        /\ stage = "vote"
        /\ take_sugs = FALSE
        /\ queue = [c \in Range(Collectors) |-> <<>>]
        /\ timedout = {}
        /\ pc = "select"
        /\ cur = NoInteraction
        /\ lock = "free"
        /\ arrived = NoInteraction
        /\ applied = [u \in Users |-> 0]
        /\ owner = <<uid>>
        /\ uservotes = uv1
        /\ submittedvotes = EmptyMap
        /\ num_votes = 0
        /\ nextmsg = 2
        /\ shown = [u \in Users |-> IF u = uid THEN "ballot" ELSE "none"]
        /\ prompt = [u \in Users |-> NoPrompt]
        /\ last = Ran("open", uid)
        /\ out = <<[Resp("view", uid) EXCEPT !.first = TRUE]>>
        /\ steps = 1

LoopInit == LoopFresh \/ LoopOpened

Button(id, num) == [id |-> id, num |-> num]

\* The buttons on the ephemeral messages of uid: those of create_user_message
\* for the user's page, or the one button of the "Vote Submitted" stub.
ViewButtons(uid) ==
    CASE shown[uid] = "ballot" ->
            {Button(ID_VOTE_VAL_PREFIX, n) : n \in PageItems(uservotes[uid].page)}
            \cup (IF nonav(uservotes[uid].page) THEN {}
                  ELSE {Button(ID_VOTE_LEFT, -1), Button(ID_VOTE_RIGHT, -1)})
            \cup {Button(ID_VOTE_SUBMIT, -1)}
      [] shown[uid] = "stub" -> {Button(ID_VOTE_SUBMIT, -1)}
      [] OTHER -> {}

\* The interaction x arrives: it gets the next number, and its collector
\* keeps it for the loop when its filter passes it.  Once start_vote has
\* returned there is no collector left to keep it.
Arrive(x, passes) ==
    /\ arrived.seq < MaxArrivals
    /\ LET kept == passes /\ stage = "vote"
           y == [x EXCEPT !.seq = arrived.seq + 1, !.kept = kept]
       IN  /\ arrived' = y
           /\ queue' = IF kept THEN [queue EXCEPT ![x.col] = Append(@, y)] ELSE queue
    /\ UNCHANGED <<votetype, size, vote_once, uservotes, submittedvotes, num_votes,
                   nextmsg, shown, last, out, steps, setupvars,
                   timedout, pc, cur, lock, applied, owner>>

\* uid presses "Vote!" on the public message.
PressVote(uid) ==
    /\ stage = "vote"
    /\ Arrive([NoInteraction EXCEPT !.col = "mainbtn_col", !.uid = uid,
                                    !.id = ID_VOTE_BTN], TRUE)
    /\ UNCHANGED prompt

\* uid presses the button b of the message mid: one of the user's ephemeral
\* messages of this vote, or, for the outsider, a message of another vote in
\* the channel, which nav_col sees as well (channel_id(cid)).  The
\* filter of nav_col reads the vote, which it cannot while the loop holds the
\* write guard.
PressView(uid, mid, b) ==
    /\ stage \in {"vote", "closed"}
    /\ \/ /\ mid \in DOMAIN owner
          /\ owner[mid] = uid
          /\ b \in ViewButtons(uid)
       \/ /\ mid = ForeignMsg
          /\ uid = Outsider
          /\ b = Button(ID_VOTE_SUBMIT, -1)
    /\ lock # "write"
    /\ Arrive([NoInteraction EXCEPT !.col = "nav_col", !.uid = uid, !.mid = mid,
                                    !.id = b.id, !.num = b.num],
              nav_filter(uid, mid))
    /\ UNCHANGED prompt

\* uid sends the modal they have open, with `text` typed in; the outsider
\* sends a modal of another vote of the channel, which mod_col sees as well
\* (channel_id(cid)).
EnterValue(uid, text) ==
    /\ stage \in {"vote", "closed"}
    /\ lock # "write"
    /\ \/ /\ uid \in Users
          /\ prompt[uid].num >= 0
          /\ Arrive([NoInteraction EXCEPT !.col = "mod_col", !.uid = uid,
                                          !.mid = prompt[uid].mid,
                                          !.id = ID_VOTE_VAL_INPUT,
                                          !.num = prompt[uid].num, !.text = text],
                    mod_filter(uid, prompt[uid].mid))
          /\ prompt' = [prompt EXCEPT ![uid] = NoPrompt]
       \/ /\ uid = Outsider
          /\ Arrive([NoInteraction EXCEPT !.col = "mod_col", !.uid = uid,
                                          !.mid = ForeignMsg,
                                          !.id = ID_VOTE_VAL_INPUT,
                                          !.num = 0, !.text = text],
                    mod_filter(uid, ForeignMsg))
          /\ UNCHANGED prompt

\* The handler of x finds no entry of its user, or a modal for votes that
\* are no scores: it panics.
Panics(x) ==
    /\ x.col # "mainbtn_col"
    /\ \/ x.uid \notin DOMAIN uservotes
       \/ x.col = "mod_col" /\ uservotes[x.uid].votes.tag # "Score"

\* The guard of vote that is alive when the handler of the interaction with
\* custom id `id` reaches its await: the modal is sent with the write guard
\* still held.
guard_at_await_modal_kept(id) ==
    IF id = ID_VOTE_VAL_PREFIX THEN "write" ELSE "free"

\* Every block that takes vote.write() or vote.read() ends before the await
\* that follows it.
guard_at_await(id) == "free"

\* mainbtn_col up to get_interaction_response: the user is looked up or
\* inserted and the new ephemeral message is sent.
HandleOpen(x) ==
    LET uid == x.uid
        uv1 == init_user(uid)
        view == user_vote_message(uid, "", TRUE, uv1, submittedvotes)
    IN  /\ uservotes' = uv1
        /\ out' = <<view>>
        /\ shown' = [shown EXCEPT ![uid] = Display(view)]
        /\ nextmsg' = nextmsg + 1
        /\ owner' = Append(owner, uid)
        /\ last' = Ran("open", uid)
        /\ UNCHANGED <<submittedvotes, num_votes, prompt>>

\* nav_col, ID_VOTE_LEFT | ID_VOTE_RIGHT.
HandleNav(x) ==
    LET uid == x.uid
        dir == (x.id = ID_VOTE_LEFT)
        uv1 == [uservotes EXCEPT ![uid].page = nav_page(@, dir)]
        view == user_vote_message(uid, "", FALSE, uv1, submittedvotes)
    IN  /\ uservotes' = uv1
        /\ out' = <<view>>
        /\ shown' = [shown EXCEPT ![uid] = Display(view)]
        /\ last' = [Ran("nav", uid) EXCEPT !.dir = dir]
        /\ UNCHANGED <<submittedvotes, num_votes, nextmsg, owner, prompt>>

\* nav_col, ID_VOTE_SUBMIT.
HandleSubmit(x) ==
    LET uid == x.uid
        dosubmit == once_dosubmit(uid)
        w == submit_write(uid)
        valid == dosubmit /\ w.valid_submission
        isfirst == once_isfirst(uid) \/ (dosubmit /\ w.isfirst)
        subs == IF dosubmit THEN w.subs ELSE submittedvotes
        edit == valid /\ count_edit(isfirst)
        showresults == ~dosubmit \/ valid
        view == user_vote_message(uid, "invalid", FALSE, uservotes, subs)
    IN  /\ submittedvotes' = subs
        /\ num_votes' = IF edit THEN w.subcount ELSE num_votes
        /\ \E results \in IF showresults
                          THEN {<<get_results(uid, results_read(subs), hm)>> :
                                   hm \in hash_orders(results_read(subs))}
                          ELSE {<<>>} :
              out' = (IF dosubmit /\ ~valid THEN <<view>> ELSE <<>>)
                     \o (IF edit THEN <<setup_base_message(w.subcount)>> ELSE <<>>)
                     \o results
        /\ shown' = IF dosubmit /\ ~valid
                    THEN [shown EXCEPT ![uid] = Display(view)]
                    ELSE shown
        /\ last' = [Ran("submit", uid) EXCEPT
                       !.dosubmit = dosubmit, !.valid_submission = valid,
                       !.isfirst = isfirst, !.showresults = showresults]
        /\ UNCHANGED <<uservotes, nextmsg, owner, prompt>>

\* nav_col, a button VoteVal<num>.
HandleValueId(x) ==
    LET uid == x.uid
        num == x.num
        votes == uservotes[uid].votes
        refresh_msg == votes.tag # "Score"
        uv1 == [uservotes EXCEPT ![uid].votes = toggle_votes(@, num)]
        view == user_vote_message(uid, "", FALSE, uv1, submittedvotes)
        modal == [Resp("modal", uid) EXCEPT
                     !.n = num, !.cur = current_score(votes, num)]
    IN  /\ uservotes' = uv1
        /\ out' = IF refresh_msg THEN <<view>> ELSE <<modal>>
        /\ shown' = IF refresh_msg
                    THEN [shown EXCEPT ![uid] = Display(view)]
                    ELSE shown
        /\ prompt' = IF refresh_msg THEN prompt
                     ELSE [prompt EXCEPT ![uid] = [num |-> num, mid |-> x.mid]]
        /\ last' = [Ran("toggle", uid) EXCEPT !.num = num]
        /\ UNCHANGED <<submittedvotes, num_votes, nextmsg, owner>>

\* mod_col: the modal of choice x.num with the text x.text.
HandleModal(x) ==
    LET uid == x.uid
        num == x.num
        r == modal_score(x.text)
        errresp == IF r.badvalue THEN "Bad Value" ELSE ""
        uv1 == [uservotes EXCEPT ![uid].votes.m = set_score(@, num, r.score)]
        view == user_vote_message(uid, errresp, FALSE, uv1, submittedvotes)
    IN  /\ uservotes' = uv1
        /\ out' = <<view>>
        /\ shown' = [shown EXCEPT ![uid] = Display(view)]
        /\ last' = [Ran("value", uid) EXCEPT
                       !.num = num, !.text = x.text, !.badvalue = r.badvalue]
        /\ UNCHANGED <<submittedvotes, num_votes, nextmsg, owner, prompt>>

\* next() gives what the collector holds although its timeout has elapsed.
ready_after_timeout(col) == queue[col] # <<>>

\* next() of a collector gives an interaction: its timeout has not elapsed
\* and it holds one.
ready(col) == col \notin timedout /\ queue[col] # <<>>

\* select! can take the branch of the collector col: the loop is at
\* select!, holding no guard, and next() of the collector gives an
\* interaction.
can_select(col) ==
    /\ stage = "vote"
    /\ pc = "select"
    /\ lock = "free"
    /\ ready(col)

\* The branch of select! for the collector col: it is taken when the
\* collector holds an interaction and its timeout has not elapsed.  The
\* handler runs up to the await of its response; a panic ends the task.
Select(col) ==
    /\ can_select(col)
    /\ LET x == Head(queue[col])
       IN  /\ queue' = [queue EXCEPT ![col] = Tail(@)]
           /\ IF Panics(x)
              THEN /\ stage' = "aborted"
                   /\ last' = Ran("panic", x.uid)
                   /\ out' = <<>>
                   /\ UNCHANGED <<uservotes, submittedvotes, num_votes, nextmsg,
                                  shown, prompt, owner, pc, cur, lock, applied>>
              ELSE /\ CASE x.col = "mainbtn_col" -> HandleOpen(x)
                        [] x.col = "mod_col" -> HandleModal(x)
                        [] x.id \in {ID_VOTE_LEFT, ID_VOTE_RIGHT} -> HandleNav(x)
                        [] x.id = ID_VOTE_SUBMIT -> HandleSubmit(x)
                        [] OTHER -> HandleValueId(x)
                   /\ pc' = "await"
                   /\ cur' = [x EXCEPT !.newmsg = IF x.col = "mainbtn_col" THEN nextmsg ELSE 0]
                   /\ lock' = guard_at_await(x.id)
                   /\ applied' = [applied EXCEPT ![x.uid] = x.seq]
                   /\ stage' = stage
    /\ steps' = steps + 1
    /\ UNCHANGED <<votetype, size, vote_once, take_sugs, show_at_timeout,
                   timedout, arrived>>

\* The handler that sent a modal waits at its await until the user has
\* answered the modal.
await_returns_with_value(x) ==
    ~(x.id = ID_VOTE_VAL_PREFIX /\ prompt[x.uid].num >= 0)

\* The await of a handler is the call that sends its response; it returns
\* when the surface has taken the response, whatever the user does with a
\* modal that was sent.
await_returns(x) == TRUE

\* The await of the handler returns and the loop goes back to select!; the
\* handler of "Vote!" first records the id of the message it sent.
Resume ==
    /\ stage = "vote"
    /\ pc = "await"
    /\ await_returns(cur)
    /\ IF cur.col = "mainbtn_col"
       THEN /\ lock = "free"
            /\ uservotes' = [uservotes EXCEPT ![cur.uid].votemsg = cur.newmsg]
       ELSE UNCHANGED uservotes
    /\ pc' = "select"
    /\ cur' = NoInteraction
    /\ lock' = "free"
    /\ UNCHANGED <<votetype, size, vote_once, submittedvotes, num_votes, nextmsg,
                   shown, prompt, last, out, steps, setupvars,
                   queue, timedout, arrived, applied, owner>>

\* The timeout of a collector elapses.  The three timeouts are equal and
\* start when the collectors are built, one after the other.
Timeout(k) ==
    /\ stage = "vote"
    /\ Collectors[k] \notin timedout
    /\ \A j \in 1 .. (k - 1) : Collectors[j] \in timedout
    /\ timedout' = timedout \cup {Collectors[k]}
    /\ UNCHANGED <<votetype, size, vote_once, uservotes, submittedvotes, num_votes,
                   nextmsg, shown, prompt, last, out, steps, setupvars,
                   queue, pc, cur, lock, arrived, applied, owner>>

\* The last edit says "Vote Finished" whatever show_at_timeout is.
final_message_finished(hm) == Resp("finished", "all")

\* The results computed from the ballots as the users have them now.
final_message_current(hm) ==
    [get_results("all",
                 [u \in DOMAIN submittedvotes |-> get_ballot(uservotes[u].votes, size)],
                 hm) EXCEPT !.extra = "Thanks!"]

\* The last edit of the public message: the results, or "Vote Finished".
final_message(hm) ==
    IF show_at_timeout
    THEN [get_results("all", submittedvotes, hm) EXCEPT !.extra = "Thanks!"]
    ELSE Resp("finished", "all")

\* The else branch of select!: no collector gives an interaction any more.
\* The loop ends, the public message is edited and start_vote returns, which
\* drops the collectors with what they hold.
Close ==
    /\ stage = "vote"
    /\ pc = "select"
    /\ timedout = Range(Collectors)
    /\ \E hm \in hash_orders(submittedvotes) : out' = <<final_message(hm)>>
    /\ stage' = "closed"
    /\ last' = Ran("close", NoUser)
    /\ queue' = [c \in Range(Collectors) |-> <<>>]
    /\ UNCHANGED <<votetype, size, vote_once, uservotes, submittedvotes, num_votes,
                   nextmsg, shown, prompt, steps, take_sugs, show_at_timeout,
                   timedout, pc, cur, lock, arrived, applied, owner>>

LoopNext ==
    \/ \E uid \in Users : PressVote(uid)
    \/ \E uid \in Users \cup {Outsider}, mid \in 1 .. ForeignMsg :
          \E b \in {Button(ID_VOTE_SUBMIT, -1), Button(ID_VOTE_LEFT, -1),
                    Button(ID_VOTE_RIGHT, -1)}
                   \cup {Button(ID_VOTE_VAL_PREFIX, n) : n \in Idx(size)} :
             PressView(uid, mid, b)
    \/ \E uid \in Users \cup {Outsider}, text \in LoopTexts : EnterValue(uid, text)
    \/ \E k \in DOMAIN Collectors : Select(Collectors[k])
    \/ Resume
    \/ \E k \in DOMAIN Collectors : Timeout(k)
    \/ Close

LoopSpec == LoopInit /\ [][LoopNext]_vars

\* A vote from its start, in which time passes and the calls of the surface
\* return: the timeouts elapse, the awaits of the handlers return, and the
\* loop runs when it can.
LoopLive ==
    /\ LoopFresh
    /\ [][LoopNext]_vars
    /\ WF_vars(Resume)
    /\ WF_vars(\E k \in DOMAIN Collectors : Timeout(k))
    /\ WF_vars(Close)

----------------------------------------------------------------------------
(* Properties of the submit handler *)

\* The step just taken ran the handler `op` for uid.
Handled(op, uid) == last'.op = op /\ last'.uid = uid

\* C1: in a vote_once session a submit of a user who has already submitted
\* leaves submittedvotes and the public count as they were, validates
\* nothing, and answers that user with the results.
C1_SecondSubmitOnlyShowsResults ==
    [][\A uid \in Users :
          (Handled("submit", uid) /\ vote_once /\ uid \in DOMAIN submittedvotes)
          => /\ submittedvotes' = submittedvotes
             /\ num_votes' = num_votes
             /\ ~last'.dosubmit
             /\ ~last'.valid_submission
             /\ Len(out') = 1
             /\ out'[1].d = "results"
             /\ out'[1].to = uid]_vars

\* C1 witness: the results were shown again although the votes the user
\* holds by now would not pass validation.
C1_Witness ==
    /\ vote_once
    /\ last.op = "submit"
    /\ ~last.dosubmit
    /\ last.uid \in DOMAIN submittedvotes
    /\ ~are_valid(uservotes[last.uid].votes, votetype, size)
    /\ uservotes[last.uid].votes # submittedvotes[last.uid]
    /\ out[1].d = "results"

\* The value a ballot holds for choice i when the votes hold none.
C2_Default(tag) == IF tag = "Score" THEN F(0) ELSE size - 1

\* Ballot b is votes made dense over the choices.
C2_Finalized(b, votes) ==
    /\ b.tag = votes.tag
    /\ b.v = votes.v
    /\ DOMAIN b.m = IF votes.tag = "Select" THEN {} ELSE DOMAIN votes.m \cup Idx(size)
    /\ \A i \in DOMAIN b.m :
          b.m[i] = IF i \in DOMAIN votes.m THEN votes.m[i] ELSE C2_Default(votes.tag)

\* C2: an accepted submit stores the finalized votes of its user, in place
\* of any earlier ballot of that user and beside the ballots of the others,
\* and the count it reports is the number of users in submittedvotes.
C2_AcceptedSubmitStoresBallot ==
    [][\A uid \in Users :
          (Handled("submit", uid) /\ last'.valid_submission)
          => /\ DOMAIN submittedvotes' = DOMAIN submittedvotes \cup {uid}
             /\ C2_Finalized(submittedvotes'[uid], uservotes[uid].votes)
             /\ \A o \in DOMAIN submittedvotes \ {uid} :
                   submittedvotes'[o] = submittedvotes[o]
             /\ num_votes' = Cardinality(DOMAIN submittedvotes')
             /\ out'[Len(out')].d = "results"
             /\ out'[Len(out')].n = Cardinality(DOMAIN submittedvotes')]_vars

\* C2 witness: an accepted resubmission of score votes with an unset choice.
C2_Witness ==
    /\ last.op = "submit"
    /\ last.valid_submission
    /\ ~last.isfirst
    /\ votetype = VOTE_SCORE
    /\ DOMAIN uservotes[last.uid].votes.m = {0}
    /\ uservotes[last.uid].votes.m[0] = F(60000)
    /\ submittedvotes[last.uid].m[1] = F(0)

\* C3: a rejected submit leaves submittedvotes, the public count and the
\* user's votes and page as they were; all it does is send that user the
\* view of the ballot with the error.
C3_RejectedSubmitChangesNothing ==
    [][\A uid \in Users :
          (Handled("submit", uid) /\ last'.dosubmit /\ ~last'.valid_submission)
          => /\ submittedvotes' = submittedvotes
             /\ num_votes' = num_votes
             /\ uservotes' = uservotes
             /\ prompt' = prompt
             /\ Len(out') = 1
             /\ out'[1].d = "view"
             /\ out'[1].to = uid
             /\ ~out'[1].stub
             /\ out'[1].page = uservotes[uid].page
             /\ out'[1].extra = "invalid"]_vars

\* C3 witness: a submit is rejected while an earlier ballot of the user,
\* with other values, is in submittedvotes and counted.
C3_Witness ==
    /\ last.op = "submit"
    /\ last.dosubmit
    /\ ~last.valid_submission
    /\ last.uid \in DOMAIN submittedvotes
    /\ num_votes = 1
    /\ uservotes[last.uid].votes.m = (0 :> F(60000) @@ 1 :> F(50000))
    /\ submittedvotes[last.uid].m = (0 :> F(60000) @@ 1 :> F(0))

\* C4: the public count is the number of users in submittedvotes after
\* every handler; it never goes down, and the public message is edited
\* exactly by the submits that add a user to submittedvotes.
C4_CountIsNumberOfSubmitters ==
    /\ [](num_votes = Cardinality(DOMAIN submittedvotes))
    /\ [][/\ num_votes' >= num_votes
          /\ (\E k \in DOMAIN out' : out'[k].d = "count")
             <=> (DOMAIN submittedvotes' # DOMAIN submittedvotes)
          /\ \A k \in DOMAIN out' :
                out'[k].d = "count"
                => out'[k].n = Cardinality(DOMAIN submittedvotes')]_vars

\* C4 witness: an accepted resubmission with two users counted.
C4_Witness ==
    /\ last.op = "submit"
    /\ last.valid_submission
    /\ ~last.isfirst
    /\ num_votes = 2
    /\ \A k \in DOMAIN out : out[k].d # "count"

----------------------------------------------------------------------------
(* Properties of submission validity *)

\* The sum of the absolute values of a map of finite scores, in
\* ten-thousandths.
RECURSIVE C5_AbsTotal(_, _)
C5_AbsTotal(m, keys) ==
    IF keys = {} THEN 0
    ELSE LET k == CHOOSE k \in keys : TRUE
             a == IF m[k].x < 0 THEN 0 - m[k].x ELSE m[k].x
         IN  a + C5_AbsTotal(m, keys \ {k})

\* The scores are numbers whose absolute values sum to at most 10.0.
C5_WithinLimit(m) ==
    /\ \A k \in DOMAIN m : m[k].cls = "fin"
    /\ C5_AbsTotal(m, DOMAIN m) <= 100000

\* C5: in a Limited Score session a submit that reaches validation is
\* accepted exactly when the absolute values of the user's scores sum to at
\* most 10.0.
C5_LimitedScoreAcceptsSumUpTo10 ==
    (votetype = VOTE_LSCORE /\ last.op = "submit" /\ last.dosubmit)
    => (last.valid_submission <=> C5_WithinLimit(uservotes[last.uid].votes.m))

\* C5 witness: scores 6.0 and 5.0, each within -10.0 .. 10.0, are rejected.
C5_Witness ==
    /\ votetype = VOTE_LSCORE
    /\ last.op = "submit"
    /\ last.dosubmit
    /\ ~last.valid_submission
    /\ uservotes[last.uid].votes.m = (0 :> F(60000) @@ 1 :> F(50000))
    /\ last.uid \notin DOMAIN submittedvotes

\* Scores 6.0 and 4.0 are accepted.
C5_AcceptedExample ==
    /\ votetype = VOTE_LSCORE
    /\ last.op = "submit"
    /\ last.valid_submission
    /\ uservotes[last.uid].votes.m = (0 :> F(60000) @@ 1 :> F(40000))
    /\ submittedvotes[last.uid].m = (0 :> F(60000) @@ 1 :> F(40000))

\* The votes hold a rank of at least 1 for every choice.
C6_AllRanked(m) == \A i \in Idx(size) : i \in DOMAIN m /\ m[i] >= 1

\* C6: in a Borda session a submit that reaches validation is accepted
\* exactly when the votes rank every choice; a rejected user has no ballot in
\* submittedvotes, and a user who has ranked every choice is accepted.
C6_BordaNeedsEveryRank ==
    (votetype = VOTE_BORDA /\ last.op = "submit" /\ last.dosubmit)
    => /\ last.valid_submission <=> C6_AllRanked(uservotes[last.uid].votes.m)
       /\ ~last.valid_submission => last.uid \notin DOMAIN submittedvotes
       /\ last.valid_submission
          => submittedvotes[last.uid].m = uservotes[last.uid].votes.m

\* C6 witness: of three choices one user has ranked all and is accepted,
\* while the other user, who has touched no choice, has no ballot stored.
C6_Witness ==
    /\ votetype = VOTE_BORDA
    /\ size = 3
    /\ last.op = "submit"
    /\ last.valid_submission
    /\ DOMAIN uservotes[last.uid].votes.m = Idx(3)
    /\ \E o \in DOMAIN uservotes \ {last.uid} :
          /\ uservotes[o].votes.m = EmptyMap
          /\ o \notin DOMAIN submittedvotes

\* A submit of a user who has touched no choice is rejected.
C6_UntouchedRejected ==
    /\ votetype = VOTE_BORDA
    /\ last.op = "submit"
    /\ last.dosubmit
    /\ ~last.valid_submission
    /\ uservotes[last.uid].votes.m = EmptyMap

----------------------------------------------------------------------------
(* Properties of the choice buttons and the value modal *)

\* A score is a number within -10.0 .. 10.0.
C7_InRange(v) == v.cls = "fin" /\ v.x >= -100000 /\ v.x <= 100000

\* C7: the modal handler stores the parsed value when the text parses to a
\* value within -10.0 .. 10.0, without an error; otherwise it stores 0.0 and
\* the view carries an error.  Hence every stored score is within
\* -10.0 .. 10.0.
C7_StoredScoresWithinRange ==
    /\ last.op = "value"
       => LET p == parse_f32(last.text)
              stored == uservotes[last.uid].votes.m[last.num]
          IN  IF p.ok /\ C7_InRange(p.v)
              THEN stored = p.v /\ out[1].d = "view" /\ out[1].extra = ""
              ELSE stored = F(0) /\ out[1].d = "view" /\ out[1].extra # ""
    /\ \A uid \in DOMAIN uservotes :
          uservotes[uid].votes.tag = "Score"
          => \A i \in DOMAIN uservotes[uid].votes.m :
                C7_InRange(uservotes[uid].votes.m[i])

\* The part of C7 the code keeps: every text but one that parses to NaN is
\* stored as the claim says.
C7_HoldsForNumbers ==
    (last.op = "value" /\ parse_f32(last.text).v.cls # "nan")
    => LET p == parse_f32(last.text)
           stored == uservotes[last.uid].votes.m[last.num]
       IN  IF p.ok /\ C7_InRange(p.v)
           THEN stored = p.v /\ out[1].d = "view" /\ out[1].extra = ""
           ELSE stored = F(0) /\ out[1].d = "view" /\ out[1].extra # ""

\* C8: in a Score or Limited Score session a press of a choice button
\* changes nothing of the Vote or the public message; it opens the modal
\* with the stored score of the choice, 0.0 if there is none, and sends no
\* view: the view is sent when the modal's value is handled.
C8_ScoreButtonOnlyOpensModal ==
    [][\A uid \in Users :
          /\ (Handled("toggle", uid) /\ votetype \in {VOTE_SCORE, VOTE_LSCORE})
             => /\ uservotes' = uservotes
                /\ submittedvotes' = submittedvotes
                /\ num_votes' = num_votes
                /\ shown' = shown
                /\ Len(out') = 1
                /\ out'[1].d = "modal"
                /\ out'[1].to = uid
                /\ out'[1].n = last'.num
                /\ out'[1].cur =
                      IF last'.num \in DOMAIN uservotes[uid].votes.m
                      THEN uservotes[uid].votes.m[last'.num]
                      ELSE F(0)
                /\ prompt'[uid].num = last'.num
          /\ Handled("value", uid)
             => /\ prompt[uid].num = last'.num
                /\ Len(out') = 1
                /\ out'[1].d = "view"
                /\ out'[1].to = uid]_vars

\* C8 witness: the modal is opened on a choice that holds 6.0.
C8_Witness ==
    /\ votetype \in {VOTE_SCORE, VOTE_LSCORE}
    /\ last.op = "toggle"
    /\ out[1].d = "modal"
    /\ out[1].cur = F(60000)
    /\ uservotes[last.uid].votes.m[last.num] = F(60000)

\* The set of the selected choices.
C9_Selected(votes) == Range(votes.v)

\* C9: a press of the button of choice i in an Approval session adds i to
\* the selection if it is absent and removes it if it is present, and two
\* presses in a row give back the selection there was.
C9_DoubleToggleRestoresSelection ==
    /\ [](\A uid \in DOMAIN uservotes : \A i \in Idx(size) :
             uservotes[uid].votes.tag = "Select"
             => LET v0 == uservotes[uid].votes.v
                    v1 == toggle_selection(v0, i)
                    v2 == toggle_selection(v1, i)
                IN  /\ Range(v2) = Range(v0)
                    /\ Len(v2) = Len(v0)
                    /\ Range(v1) = IF i \in Range(v0) THEN Range(v0) \ {i}
                                   ELSE Range(v0) \cup {i})
    /\ [][\A uid \in Users :
             (Handled("toggle", uid) /\ votetype = VOTE_APPROVAL)
             => LET i == last'.num
                    s0 == C9_Selected(uservotes[uid].votes)
                    s1 == C9_Selected(uservotes'[uid].votes)
                IN  /\ s1 = IF i \in s0 THEN s0 \ {i} ELSE s0 \cup {i}
                    /\ Len(uservotes'[uid].votes.v) = Cardinality(s1)]_vars

\* C9 witness: choice 0 was selected first, then choice 1, and two presses
\* on choice 0 leave both selected, choice 0 now last.
C9_Witness ==
    /\ votetype = VOTE_APPROVAL
    /\ last.op = "toggle"
    /\ last.num = 0
    /\ uservotes[last.uid].votes.v = <<1, 0>>
    /\ steps = 5
    /\ nextmsg = 2

\* m after k presses on choice i.
RECURSIVE C10_Times(_, _, _)
C10_Times(m, i, k) ==
    IF k = 0 THEN m ELSE increment_rank(C10_Times(m, i, k - 1), i, size)

\* C10: a press of the button of choice i in a Borda session sets the rank
\* of i to 1 when i has no rank or has rank N, and to its rank plus 1
\* otherwise, and changes no other rank; N+1 presses give the rank that one
\* press gives.
C10_RankCyclesWithPeriodN ==
    /\ [](\A uid \in DOMAIN uservotes : \A i \in Idx(size) :
             uservotes[uid].votes.tag = "Rank"
             => LET m == uservotes[uid].votes.m
                    once == increment_rank(m, i, size)
                IN  /\ C10_Times(once, i, size)[i] = once[i]
                    /\ i \notin DOMAIN m => once[i] = 1
                    /\ once[i] \in 1 .. size)
    /\ [][\A uid \in Users :
             (Handled("toggle", uid) /\ votetype = VOTE_BORDA)
             => LET i == last'.num
                    m0 == uservotes[uid].votes.m
                    m1 == uservotes'[uid].votes.m
                IN  /\ DOMAIN m1 = DOMAIN m0 \cup {i}
                    /\ m1[i] = IF i \notin DOMAIN m0 THEN 1
                               ELSE IF m0[i] >= size THEN 1
                               ELSE m0[i] + 1
                    /\ \A j \in DOMAIN m0 \ {i} : m1[j] = m0[j]]_vars

\* C10 witness: after the vote button and N+1 presses on one choice of
\* three, the choice is back at rank 1.
C10_Witness ==
    /\ votetype = VOTE_BORDA
    /\ size = 3
    /\ last.op = "toggle"
    /\ steps = 5
    /\ nextmsg = 2
    /\ \A uid \in DOMAIN uservotes :
          /\ uid \notin DOMAIN submittedvotes
          /\ uservotes[uid].votes.m = (last.num :> 1)

----------------------------------------------------------------------------
(* Properties of the ballots and of the pages *)

\* C11: get_ballot applied to a ballot it has made gives that ballot again,
\* for the votes of every user with one choice, with the choices of the vote
\* and with MaxChoices choices, and for every ballot of submittedvotes; the
\* ballot has the variant, the selection and every value of the votes it was
\* made from.
C11_FinalizeIdempotent ==
    /\ \A uid \in DOMAIN uservotes : \A n \in {1, size, MaxChoices} :
          LET votes == uservotes[uid].votes
              b == get_ballot(votes, n)
          IN  /\ get_ballot(b, n) = b
              /\ b.tag = votes.tag
              /\ b.v = votes.v
              /\ \A i \in DOMAIN votes.m : i \in DOMAIN b.m /\ b.m[i] = votes.m[i]
    /\ \A uid \in DOMAIN submittedvotes :
          get_ballot(submittedvotes[uid], size) = submittedvotes[uid]

\* C11 witness: a submitted score ballot that keeps the -10 set for choice 1
\* and has the default for choice 0.
C11_Witness ==
    /\ votetype = VOTE_SCORE
    /\ last.op = "submit"
    /\ last.valid_submission
    /\ uservotes[last.uid].votes.m = (1 :> F(-100000))
    /\ submittedvotes[last.uid].m = (0 :> F(0) @@ 1 :> F(-100000))

\* C12: in a Score, Limited Score or Borda vote every ballot of
\* submittedvotes has a value for each of the choices 0..size-1 and for
\* nothing else, and a score ballot just stored has 0.0 for every choice its
\* user has set no score for.
C12_SubmittedBallotsDense ==
    votetype \in {VOTE_SCORE, VOTE_LSCORE, VOTE_BORDA}
    => /\ \A uid \in DOMAIN submittedvotes :
             DOMAIN submittedvotes[uid].m = Idx(size)
       /\ (last.op = "submit" /\ last.valid_submission /\ votetype # VOTE_BORDA)
          => \A i \in Idx(size) \ DOMAIN uservotes[last.uid].votes.m :
                submittedvotes[last.uid].m[i] = F(0)

\* C12 witness: a Limited Score ballot submitted with no score set.
C12_Witness ==
    /\ votetype = VOTE_LSCORE
    /\ last.op = "submit"
    /\ last.valid_submission
    /\ uservotes[last.uid].votes.m = EmptyMap
    /\ submittedvotes[last.uid].m = (0 :> F(0) @@ 1 :> F(0))

\* C13: the first press of "Vote!" by a user makes an entry with the empty
\* votes of the vote type and page 0, made with the message id 0 that no
\* message has; a later press leaves the votes and the page of the entry as
\* they are.  Either press records the id of the message it has just sent as
\* the user's vote message, an id no entry held before, and changes no other
\* entry, no submitted ballot and not the count.
C13_OpenKeepsBallotAndPage ==
    /\ [](UserVote_new.votemsg = 0 /\ 0 \notin MsgIds)
    /\ [][\A uid \in Users :
             Handled("open", uid)
             => /\ DOMAIN uservotes' = DOMAIN uservotes \cup {uid}
                /\ IF uid \in DOMAIN uservotes
                   THEN /\ uservotes'[uid].votes = uservotes[uid].votes
                        /\ uservotes'[uid].page = uservotes[uid].page
                   ELSE /\ uservotes'[uid].votes = CastVotes_new(votetype)
                        /\ uservotes'[uid].votes.v = <<>>
                        /\ uservotes'[uid].votes.m = EmptyMap
                        /\ uservotes'[uid].page = 0
                /\ uservotes'[uid].votemsg = nextmsg
                /\ \A o \in DOMAIN uservotes : uservotes[o].votemsg # nextmsg
                /\ Len(out') = 1
                /\ out'[1].d = "view"
                /\ out'[1].to = uid
                /\ out'[1].first
                /\ out'[1].page = uservotes'[uid].page
                /\ \A o \in DOMAIN uservotes \ {uid} : uservotes'[o] = uservotes[o]
                /\ submittedvotes' = submittedvotes
                /\ num_votes' = num_votes]_vars

\* C13 witness: a second press by a user who is on page 1 and has ranked a
\* choice.
C13_Witness ==
    /\ last.op = "open"
    /\ steps = 4
    /\ nextmsg = 3
    /\ DOMAIN uservotes = {last.uid}
    /\ uservotes[last.uid].page = 1
    /\ uservotes[last.uid].votes.m # EmptyMap
    /\ uservotes[last.uid].votemsg = 2

\* k is n / d rounded up: the least k with k * d >= n.
C14_IsCeilDiv(k, n, d) == k * d >= n /\ (k - 1) * d < n

RECURSIVE C15_Rights(_, _, _)
C15_Rights(p, k, np) ==
    IF k = 0 THEN p ELSE nav_page_in(C15_Rights(p, k - 1, np), FALSE, np)

\* C15: with np pages, up to the pages of MaxChoices choices, ">" leads from
\* page p to (p + 1) mod np and "<" to (p - 1) mod np; "<" then ">" and np
\* presses of ">" lead back to p.  The handler of "<" and ">" sets the page
\* of its user so, and changes nothing else of any entry, no submitted
\* ballot and not the count.
C15_NavigationWraps ==
    /\ [](\A np \in 1 .. pages_of(MaxChoices) : \A p \in 0 .. (np - 1) :
             /\ nav_page_in(p, FALSE, np) = (p + 1) % np
             /\ nav_page_in(p, TRUE, np) = (p + np - 1) % np
             /\ nav_page_in(nav_page_in(p, TRUE, np), FALSE, np) = p
             /\ nav_page_in(nav_page_in(p, FALSE, np), TRUE, np) = p
             /\ C15_Rights(p, np, np) = p)
    /\ [][\A uid \in Users :
             Handled("nav", uid)
             => /\ uservotes'[uid].page =
                      IF last'.dir
                      THEN (uservotes[uid].page + num_pages - 1) % num_pages
                      ELSE (uservotes[uid].page + 1) % num_pages
                /\ uservotes'[uid].votes = uservotes[uid].votes
                /\ uservotes'[uid].votemsg = uservotes[uid].votemsg
                /\ DOMAIN uservotes' = DOMAIN uservotes
                /\ \A o \in DOMAIN uservotes \ {uid} : uservotes'[o] = uservotes[o]
                /\ submittedvotes' = submittedvotes
                /\ num_votes' = num_votes]_vars

\* C15 witness: a user who has ranked a choice is back on page 0 after two
\* presses of the page buttons, the last one ">".
C15_Witness ==
    /\ last.op = "nav"
    /\ ~last.dir
    /\ steps = 4
    /\ nextmsg = 2
    /\ num_pages = 2
    /\ uservotes[last.uid].page = 0
    /\ uservotes[last.uid].votes.m # EmptyMap

\* C16: every user with a ballot in submittedvotes has an entry in
\* uservotes, and no step takes an entry out of uservotes.
C16_SubmittersAreParticipants ==
    /\ [](DOMAIN submittedvotes \subseteq DOMAIN uservotes)
    /\ [][DOMAIN uservotes \subseteq DOMAIN uservotes']_vars

\* C16 witness: both users have an entry and a submitted ballot.
C16_Witness ==
    /\ last.op = "submit"
    /\ last.valid_submission
    /\ DOMAIN uservotes = Users
    /\ DOMAIN submittedvotes = Users

\* The variant of CastVotes the vote type goes with.
C17_Variant ==
    CASE votetype = VOTE_APPROVAL -> "Select"
      [] votetype \in {VOTE_SCORE, VOTE_LSCORE} -> "Score"
      [] votetype = VOTE_BORDA -> "Rank"

\* The votes have the variant of the vote type and nothing of another one.
C17_Shaped(b) ==
    /\ b.tag = C17_Variant
    /\ b.tag = "Select" => b.m = EmptyMap
    /\ b.tag # "Select" => b.v = <<>>

\* C17: the votes of every user and every ballot of submittedvotes have the
\* variant that goes with the vote type, in every reachable state.
C17_BallotVariantMatchesMethod ==
    /\ \A uid \in DOMAIN uservotes : C17_Shaped(uservotes[uid].votes)
    /\ \A uid \in DOMAIN submittedvotes : C17_Shaped(submittedvotes[uid])

\* C17 witness: a Borda user presses a choice after the submit; the votes
\* and the submitted ballot differ and are both rank maps.
C17_Witness ==
    /\ votetype = VOTE_BORDA
    /\ last.op = "toggle"
    /\ last.uid \in DOMAIN submittedvotes
    /\ uservotes[last.uid].votes # submittedvotes[last.uid]
    /\ uservotes[last.uid].votes.tag = "Rank"
    /\ submittedvotes[last.uid].tag = "Rank"

----------------------------------------------------------------------------
(* Properties of the results *)

\* The results message that ends the responses of the last handler.
LastResults == out[Len(out)]

\* The last handler was a submit that sent the results.
ResultsSent == last.op = "submit" /\ last.showresults

\* C18: the results of the ballots of submittedvotes, the number of voters,
\* the winners and the totals, are the same in whatever order the maps are
\* iterated.
C18_ResultsIndependentOfIterationOrder ==
    \A h1, h2 \in hash_orders(submittedvotes) :
       get_results(NoUser, submittedvotes, h1) = get_results(NoUser, submittedvotes, h2)

\* Two choices of a submitted ballot hold the same rank.
C18_EqualRanks ==
    /\ votetype = VOTE_BORDA
    /\ \E uid \in DOMAIN submittedvotes : \E i, j \in DOMAIN submittedvotes[uid].m :
          i # j /\ submittedvotes[uid].m[i] = submittedvotes[uid].m[j]

\* The part of C18 the code keeps: without equal ranks in a submitted ballot
\* the results are the same in every order of iteration.
C18_HoldsWithoutEqualRanks ==
    ~C18_EqualRanks
    => \A h1, h2 \in hash_orders(submittedvotes) :
          get_results(NoUser, submittedvotes, h1) = get_results(NoUser, submittedvotes, h2)

\* The number of submitted ballots with choice c selected.
C19_Approvals(c) ==
    Cardinality({uid \in DOMAIN submittedvotes : c \in Range(submittedvotes[uid].v)})

\* The total the results give for choice c, 0 when they list none.
C19_Total(c) ==
    IF c \in DOMAIN LastResults.totals THEN LastResults.totals[c] ELSE 0

\* C19: the results of an Approval vote give each choice the number of
\* submitted ballots it is selected on, and their winners are the choices
\* whose number is the highest.
C19_ApprovalTotalsAndWinners ==
    (votetype = VOTE_APPROVAL /\ ResultsSent)
    => /\ \A c \in Idx(size) : C19_Total(c) = C19_Approvals(c)
       /\ LastResults.winners =
             {c \in Idx(size) : \A d \in Idx(size) : C19_Approvals(d) <= C19_Approvals(c)}

\* The part of C19 the code keeps: it holds when some submitted ballot has a
\* choice selected.
C19_HoldsWhenSomeChoiceSelected ==
    (votetype = VOTE_APPROVAL /\ ResultsSent /\ \E c \in Idx(size) : C19_Approvals(c) > 0)
    => /\ \A c \in Idx(size) : C19_Total(c) = C19_Approvals(c)
       /\ LastResults.winners =
             {c \in Idx(size) : \A d \in Idx(size) : C19_Approvals(d) <= C19_Approvals(c)}

\* The example of C19: {0, 2} and {1} selected by two voters over three
\* choices give each choice the total 1 and make all three winners.
C19_Example ==
    /\ votetype = VOTE_APPROVAL
    /\ ResultsSent
    /\ DOMAIN submittedvotes = Users
    /\ {Range(submittedvotes[uid].v) : uid \in Users} = {{0, 2}, {1}}
    /\ LastResults.totals = (0 :> 1 @@ 1 :> 1 @@ 2 :> 1)
    /\ LastResults.winners = {0, 1, 2}
    /\ LastResults.n = 2

\* The sum of the scores the submitted ballots hold for choice c, in
\* ten-thousandths.
RECURSIVE C20_SumOver(_, _)
C20_SumOver(c, uids) ==
    IF uids = {} THEN 0
    ELSE LET uid == CHOOSE uid \in uids : TRUE
         IN  submittedvotes[uid].m[c].x + C20_SumOver(c, uids \ {uid})

C20_Sum(c) == C20_SumOver(c, DOMAIN submittedvotes)

\* C20: the results of a Score or Limited Score vote give each choice the
\* sum of the scores the submitted ballots hold for it, and their winners
\* are the choices whose sum is the highest.
C20_ScoreTotalsAndWinners ==
    (votetype \in {VOTE_SCORE, VOTE_LSCORE} /\ ResultsSent)
    => /\ DOMAIN LastResults.totals = Idx(size)
       /\ \A c \in Idx(size) : LastResults.totals[c] = F(C20_Sum(c))
       /\ LastResults.winners =
             {c \in Idx(size) : \A d \in Idx(size) : C20_Sum(d) <= C20_Sum(c)}

\* Every score of every submitted ballot is a number.
C20_AllNumbers ==
    \A uid \in DOMAIN submittedvotes : \A c \in DOMAIN submittedvotes[uid].m :
       submittedvotes[uid].m[c].cls = "fin"

\* The part of C20 the code keeps: it holds when every submitted score is a
\* number.
C20_HoldsForNumbers ==
    (votetype \in {VOTE_SCORE, VOTE_LSCORE} /\ ResultsSent /\ C20_AllNumbers)
    => /\ DOMAIN LastResults.totals = Idx(size)
       /\ \A c \in Idx(size) : LastResults.totals[c] = F(C20_Sum(c))
       /\ LastResults.winners =
             {c \in Idx(size) : \A d \in Idx(size) : C20_Sum(d) <= C20_Sum(c)}

\* An example of C20: one voter with 6.0 for choice 0 and -10 for choice 1
\* gives the totals 6.0 and -10 and the winner 0.
C20_Example ==
    /\ votetype = VOTE_SCORE
    /\ ResultsSent
    /\ DOMAIN submittedvotes = {last.uid}
    /\ submittedvotes[last.uid].m = (0 :> F(60000) @@ 1 :> F(-100000))
    /\ LastResults.totals = (0 :> F(60000) @@ 1 :> F(-100000))
    /\ LastResults.winners = {0}

\* The position, counted from 1, of choice c in the ordering vec.
C21_Position(vec, c) == CHOOSE p \in 1 .. Len(vec) : vec[p] = c

\* vec orders all the choices of the vote and goes up by the ranks of m.
C21_Ascending(vec, m) ==
    /\ Len(vec) = size
    /\ Range(vec) = Idx(size)
    /\ \A a, b \in 1 .. Len(vec) : a < b => m[vec[a]] <= m[vec[b]]

\* The points of choice c when the ballot of each user of uids is the
\* ordering vecs gives it: size - p for position p.
RECURSIVE C21_Points(_, _, _)
C21_Points(vecs, c, uids) ==
    IF uids = {} THEN 0
    ELSE LET uid == CHOOSE uid \in uids : TRUE
         IN  (size - C21_Position(vecs[uid], c)) + C21_Points(vecs, c, uids \ {uid})

\* The example of C21: one voter who ranks P = 1, Q = 2, R = 3 gives
\* P 2 points, Q 1 and R 0, and the winner P, however the map is iterated.
C21_ExampleHolds ==
    LET votes == [tag |-> "Rank", v |-> <<>>, m |-> (0 :> 1 @@ 1 :> 2 @@ 2 :> 3)]
    IN  \A iter \in iter_orders({0, 1, 2}) :
           LET vec == get_vote_vec(votes, iter)
               totals == borda_totals(<<vec>>)
           IN  /\ vec = <<0, 1, 2>>
               /\ totals = (0 :> 2 @@ 1 :> 1 @@ 2 :> 0)
               /\ tally_winners(totals, FALSE) = {0}

\* C21: the results of a Borda vote count each submitted ballot as an
\* ordering of the choices that goes up by rank, give the choice at position
\* p (from 1) of an ordering N - p points, N the number of choices, add the
\* points over the ballots, and name the choices with the most points the
\* winners.
C21_BordaPointsByPosition ==
    /\ C21_ExampleHolds
    /\ (votetype = VOTE_BORDA /\ ResultsSent)
       => \E vecs \in [DOMAIN submittedvotes -> iter_orders(Idx(size))] :
             LET pts == [c \in Idx(size) |-> C21_Points(vecs, c, DOMAIN submittedvotes)]
             IN  /\ \A uid \in DOMAIN submittedvotes :
                       C21_Ascending(vecs[uid], submittedvotes[uid].m)
                 /\ LastResults.totals = pts
                 /\ LastResults.winners =
                       {c \in Idx(size) : \A d \in Idx(size) : pts[d] <= pts[c]}

\* Results of a Borda vote were sent for one ballot that ranks choice 0
\* first and the other two second: choice 0 has 2 points and wins, and the
\* other two share the points 1 and 0.
C21_Witness ==
    /\ votetype = VOTE_BORDA
    /\ size = 3
    /\ ResultsSent
    /\ DOMAIN submittedvotes = {last.uid}
    /\ submittedvotes[last.uid].m = (0 :> 1 @@ 1 :> 2 @@ 2 :> 2)
    /\ LastResults.totals[0] = 2
    /\ {LastResults.totals[1], LastResults.totals[2]} = {0, 1}
    /\ LastResults.winners = {0}

\* C22: every results message names at least one winner.
C22_ResultsNameAWinner ==
    ResultsSent => LastResults.winners # {}

----------------------------------------------------------------------------
(* Properties of the handlers towards the other users *)

\* The step leaves what the vote holds of user B as it was: the entry in
\* uservotes (votes, page, votemsg) and the entry in submittedvotes.
C28_Untouched(B) ==
    /\ (B \in DOMAIN uservotes') = (B \in DOMAIN uservotes)
    /\ B \in DOMAIN uservotes => uservotes'[B] = uservotes[B]
    /\ (B \in DOMAIN submittedvotes') = (B \in DOMAIN submittedvotes)
    /\ B \in DOMAIN submittedvotes => submittedvotes'[B] = submittedvotes[B]

\* C28: a handler run for an interaction of user A changes neither the
\* votes, the page and the recorded message of another user B nor the ballot
\* B has submitted.
C28_HandlersTouchOnlyTheirUser ==
    [][\A A, B \in Users :
          (A # B /\ steps' # steps /\ last'.uid = A) => C28_Untouched(B)]_vars

\* A user has submitted a ballot that replaced the first one, after another
\* user with votes of their own had submitted.
C28_Witness ==
    /\ last.op = "submit"
    /\ last.valid_submission
    /\ ~last.isfirst
    /\ \E B \in DOMAIN submittedvotes :
          /\ B # last.uid
          /\ submittedvotes[B] # CastVotes_new(votetype)
          /\ submittedvotes[B] # submittedvotes[last.uid]

----------------------------------------------------------------------------
(* Properties of the select loop and of the end of the vote *)

\* The message the last edit must leave on the public message: the results
\* of the ballots submitted, or the notice that the vote is finished.
C23_IsFinal(msg, subs) ==
    IF show_at_timeout
    THEN /\ msg.d = "results"
         /\ msg.to = "all"
         /\ msg.n = Cardinality(DOMAIN subs)
         /\ \E hm \in hash_orders(subs) :
               /\ msg.totals = get_results("all", subs, hm).totals
               /\ msg.winners = get_results("all", subs, hm).winners
    ELSE msg.d = "finished" /\ msg.to = "all"

C23_ClosedWithoutBallots ==
    /\ stage = "closed"
    /\ show_at_timeout
    /\ submittedvotes = EmptyMap
    /\ out[1].d = "results"
    /\ out[1].n = 0
    /\ out[1].winners = {}

\* What the vote holds and shows of the ballots: the users, the ballots
\* submitted and the count on the public message.
C24_Ballots == <<uservotes, submittedvotes, num_votes>>

\* C24: once the timeouts of the collectors have elapsed no handler is
\* started, so the ballots submitted and their count stay as they are; once
\* the vote is closed nothing it holds changes, what the collectors held is
\* never handled, what arrives later is not kept, and the vote stays closed.
C24_NothingAppliedAfterTheDeadline ==
    /\ [][timedout = Range(Collectors)
            => /\ steps' = steps
               /\ applied' = applied
               /\ submittedvotes' = submittedvotes
               /\ num_votes' = num_votes]_vars
    /\ [][stage = "closed"
            => /\ stage' = "closed"
               /\ C24_Ballots' = C24_Ballots
               /\ queue' = queue
               /\ (arrived' # arrived => ~arrived'.kept)]_vars
    /\ [](stage = "closed" => \A c \in Range(Collectors) : queue[c] = <<>>)

\* The vote is closed and the interaction that arrived last, which its
\* collector had kept, was never handled.
C24_Witness ==
    /\ stage = "closed"
    /\ arrived.kept
    /\ arrived.uid \in Users
    /\ applied[arrived.uid] < arrived.seq

\* A press on an ephemeral message arrived after the vote was closed.
C24_LateArrival ==
    /\ stage = "closed"
    /\ arrived.col = "nav_col"
    /\ arrived.uid \in DOMAIN uservotes
    /\ arrived.mid = uservotes[arrived.uid].votemsg
    /\ ~arrived.kept

C26_NeverStuck ==
    (\E a \in Users : prompt[a].num >= 0 /\ stage = "vote")
        => /\ pc = "await" => ENABLED Resume
           /\ pc = "select" =>
                \A k \in DOMAIN Collectors :
                    ready(Collectors[k]) => ENABLED Select(Collectors[k])

C26_OwnActionHandled ==
    \E a \in Users :
        /\ prompt[a].num >= 0
        /\ pc = "await"
        /\ cur.uid = a
        /\ cur.id = ID_VOTE_SUBMIT
        /\ last.op = "submit"

\* C27: the interactions of one participant are handled in the order in
\* which they arrived, whichever collector holds them: the arrival number of
\* the interaction handled last for a participant never goes down.
C27_AppliedInArrivalOrder ==
    [][\A u \in Users : applied'[u] >= applied[u]]_vars

\* The example of the claim, the other way round: the Submit of a participant
\* is being handled while mod_col still holds the value the same participant
\* had entered before pressing Submit.
C27_SubmitOvertakesValue ==
    /\ pc = "await"
    /\ cur.id = ID_VOTE_SUBMIT
    /\ last.op = "submit"
    /\ \E i \in DOMAIN queue["mod_col"] :
          /\ queue["mod_col"][i].uid = cur.uid
          /\ queue["mod_col"][i].seq < cur.seq

\* An interaction arrives at nav_col or mod_col from a user who has no
\* entry in uservotes.
C29_UnknownUserArrives ==
    /\ arrived'.seq # arrived.seq
    /\ arrived'.col \in {"nav_col", "mod_col"}
    /\ arrived'.uid \notin DOMAIN uservotes

C29_ForeignModalDropped ==
    /\ stage = "vote"
    /\ arrived.uid = Outsider
    /\ arrived.col = "mod_col"
    /\ ~arrived.kept


(***************************************************************************)
(* The way to start_vote: the wizard of handle_dm_vote, which edits a      *)
(* VoteInfo, and the suggestion phase of handle_suggestion_phase.  Of the  *)
(* VoteInfo the model keeps kind, take_sugs, show_at_timeout, vote_once    *)
(* and the number of vals; the prompt, the duration and the ping are left  *)
(* out.  `stage` is where the creation of the vote stands.                 *)
(***************************************************************************)

\* The most lines a choices modal carries.
MaxVals == 3

\* VoteInfo::new(), and the wizard's message sent to the author.
SetupInit ==
    /\ stage = "wizard"
    /\ votetype = VOTE_APPROVAL
    /\ size = 0
    /\ take_sugs = FALSE
    /\ show_at_timeout = TRUE
    /\ vote_once = FALSE
    /\ loop_start
    /\ uservotes = EmptyMap
    /\ submittedvotes = EmptyMap
    /\ num_votes = 0
    /\ nextmsg = 1
    /\ shown = [u \in Users |-> "none"]
    /\ prompt = [u \in Users |-> NoPrompt]
    /\ last = Ran("wizard", NoUser)
    /\ out = <<Resp("wizard", "author")>>
    /\ steps = 0

\* What the wizard and the suggestion phase never touch.
setup_frame ==
    UNCHANGED <<uservotes, submittedvotes, num_votes, nextmsg, shown, prompt,
                steps, loopvars>>

\* VoteInfo::submittable: the wizard's Submit button is disabled without it.
submittable == size > 1 \/ take_sugs

\* v.split('\n'): the number of values of a modal's text, which is never
\* empty; a text without a line feed is one value.
split_lens == 1 .. MaxVals

\* The message `said` is sent and start_vote is entered with the VoteInfo as
\* it is.  With no value vals.len() - 1 overflows: the build with overflow
\* checks panics there, the build without goes on with the wrapped number
\* of pages.
start_vote(said) ==
    /\ stage' \in (IF size = 0 THEN {"vote", "aborted"} ELSE {"vote"})
    /\ last' = Ran("start", NoUser)
    /\ out' = <<Resp(said, "all")>>
                 \o (IF stage' = "vote" THEN <<setup_base_message(0)>> ELSE <<>>)

BuildType(k) ==
    /\ stage = "wizard"
    /\ votetype' = k
    /\ UNCHANGED <<size, vote_once, take_sugs, show_at_timeout, stage, last, out>>
    /\ setup_frame

BuildSugBtn ==
    /\ stage = "wizard"
    /\ take_sugs' = ~take_sugs
    /\ UNCHANGED <<votetype, size, vote_once, show_at_timeout, stage, last, out>>
    /\ setup_frame

BuildShowresBtn ==
    /\ stage = "wizard"
    /\ show_at_timeout' = ~show_at_timeout
    /\ UNCHANGED <<votetype, size, vote_once, take_sugs, stage, last, out>>
    /\ setup_frame

BuildVoteoneBtn ==
    /\ stage = "wizard"
    /\ vote_once' = ~vote_once
    /\ UNCHANGED <<votetype, size, take_sugs, show_at_timeout, stage, last, out>>
    /\ setup_frame

\* The choices modal of the wizard: vals is replaced by the lines sent.
BuildValInput(n) ==
    /\ stage = "wizard"
    /\ size' = n
    /\ UNCHANGED <<votetype, vote_once, take_sugs, show_at_timeout, stage, last, out>>
    /\ setup_frame

\* The wizard's Submit, which can be pressed when the message shows it
\* enabled: the suggestion phase starts, or the vote.
BuildSubmit ==
    /\ stage = "wizard"
    /\ submittable
    /\ IF take_sugs
       THEN /\ stage' = "suggest"
            /\ last' = Ran("suggest", NoUser)
            /\ out' = <<Resp("suggest", "all")>>
       ELSE start_vote("created")
    /\ UNCHANGED <<votetype, size, vote_once, take_sugs, show_at_timeout>>
    /\ setup_frame

BuildCancel ==
    /\ stage = "wizard"
    /\ stage' = "cancelled"
    /\ out' = <<Resp("cancelled", "author")>>
    /\ UNCHANGED <<votetype, size, vote_once, take_sugs, show_at_timeout, last>>
    /\ setup_frame

\* The else branch of the wizard's select!: its collectors have timed out.
BuildTimeout ==
    /\ stage = "wizard"
    /\ stage' = "expired"
    /\ out' = <<Resp("expired", "author")>>
    /\ UNCHANGED <<votetype, size, vote_once, take_sugs, show_at_timeout, last>>
    /\ setup_frame

\* The modal of the suggestion phase: the author's lines replace vals, the
\* value of anybody else is pushed when vals does not contain it.
SugValInput(is_author, n) ==
    /\ stage = "suggest"
    /\ IF is_author
       THEN size' = n
       ELSE /\ n = 1
            /\ size < MaxVals
            /\ size' = size + 1
    /\ out' = <<Resp("suggest", "all")>>
    /\ UNCHANGED <<votetype, vote_once, take_sugs, show_at_timeout, stage, last>>
    /\ setup_frame

\* "Start Vote" of the suggestion message: the author starts the vote,
\* anybody else is told that only the author can.
SugSubBtn(is_author) ==
    /\ stage = "suggest"
    /\ IF is_author
       THEN start_vote("starting")
       ELSE /\ out' = <<Resp("sorry", "user")>>
            /\ UNCHANGED <<stage, last>>
    /\ UNCHANGED <<votetype, size, vote_once, take_sugs, show_at_timeout>>
    /\ setup_frame

\* The else branch of the suggestion phase: its collectors have timed out.
SugTimeout ==
    /\ stage = "suggest"
    /\ IF size > 1
       THEN start_vote("timeup")
       ELSE /\ stage' = "insufficient"
            /\ out' = <<Resp("insufficient", "all")>>
            /\ UNCHANGED last
    /\ UNCHANGED <<votetype, size, vote_once, take_sugs, show_at_timeout>>
    /\ setup_frame

SetupNext ==
    \/ \E k \in get_all : BuildType(k)
    \/ BuildSugBtn
    \/ BuildShowresBtn
    \/ BuildVoteoneBtn
    \/ \E n \in split_lens : BuildValInput(n)
    \/ BuildSubmit
    \/ BuildCancel
    \/ BuildTimeout
    \/ \E is_author \in BOOLEAN, n \in split_lens : SugValInput(is_author, n)
    \/ \E is_author \in BOOLEAN : SugSubBtn(is_author)
    \/ SugTimeout

SetupSpec == SetupInit /\ [][SetupNext]_vars

\* C30: start_vote is entered, from the wizard or from the suggestion
\* phase, only with at least 2 values.
C30_VoteStartsWithTwoChoices ==
    [][(stage \in {"wizard", "suggest"} /\ stage' \in {"vote", "aborted"})
           => size >= 2]_vars

\* The author has pressed "Start Vote" in the suggestion phase with one
\* value, and start_vote runs with it.
C30_StartedWithOneChoice ==
    stage = "vote" /\ take_sugs /\ size = 1

\* Where the size is checked, the vote starts with at least 2 values: the
\* wizard's direct start and the timeout of the suggestion phase.
C30_CheckedPathsStartWithTwo ==
    [][/\ stage' \in {"vote", "aborted"}
       /\ \/ stage = "wizard"
          \/ stage = "suggest" /\ out'[1].d = "timeup"
       => size >= 2]_vars


\* The rank uid has stored for choice c in map m of uid -> UserVote, 0 when
\* there is none.
C31_Rank(uvs, uid, c) ==
    IF uid \in DOMAIN uvs /\ c \in DOMAIN uvs[uid].votes.m
    THEN uvs[uid].votes.m[c]
    ELSE 0

\* C31: in a Borda vote every rank stored for a user, in uservotes and in
\* submittedvotes, is a rank of one of the N choices and is in 1..N; a rank
\* of uservotes changes only in the handler of the choice button of that
\* choice pressed by that user; and the modal handler never runs.
C31_RanksOnlyByOwnToggle ==
    /\ [](votetype = VOTE_BORDA =>
            /\ \A uid \in DOMAIN uservotes :
                  /\ uservotes[uid].votes.tag = "Rank"
                  /\ \A c \in DOMAIN uservotes[uid].votes.m :
                        c \in Idx(size) /\ uservotes[uid].votes.m[c] \in 1 .. size
            /\ \A uid \in DOMAIN submittedvotes :
                  \A c \in DOMAIN submittedvotes[uid].m :
                     c \in Idx(size) /\ submittedvotes[uid].m[c] \in 1 .. size
            /\ \A uid \in Users : prompt[uid] = NoPrompt)
    /\ [][votetype = VOTE_BORDA =>
            /\ \A uid \in Users : \A c \in Idx(size) :
                  C31_Rank(uservotes', uid, c) # C31_Rank(uservotes, uid, c)
                  => Handled("toggle", uid) /\ last'.num = c
            /\ \A uid \in Users : ~(steps' # steps /\ Handled("value", uid))]_vars

\* Borda vote with 3 choices: a user has pressed one choice three times
\* (rank 3) and then another choice once (rank 1).
C31_Witness ==
    \E uid \in DOMAIN uservotes :
        /\ votetype = VOTE_BORDA
        /\ size = 3
        /\ last = [Ran("toggle", uid) EXCEPT !.num = last.num]
        /\ C31_Rank(uservotes, uid, last.num) = 1
        /\ \E c \in Idx(size) \ {last.num} : C31_Rank(uservotes, uid, c) = size


\* C32: in a vote_once vote the ballot stored for a user in submittedvotes
\* stays as it is in every later step, whoever acts.
C32_SubmittedOnceIsFinal ==
    [][vote_once =>
          \A uid \in DOMAIN submittedvotes :
             /\ uid \in DOMAIN submittedvotes'
             /\ submittedvotes'[uid] = submittedvotes[uid]]_vars

\* vote_once: a user has submitted, has changed the votes afterwards and has
\* pressed Submit again, which stored nothing: the votes in progress differ
\* from the stored ballot.
C32_Witness ==
    \E uid \in DOMAIN submittedvotes :
        /\ vote_once
        /\ last.op = "submit"
        /\ last.uid = uid
        /\ ~last.dosubmit
        /\ uservotes[uid].votes # submittedvotes[uid]


----------------------------------------------------------------------------
(* The final tally against the stored ballots.  Changing a ballot after a   *)
(* submission and then letting the vote run out takes four interactions of  *)
(* one user after the first "Vote!", so the loop is also started from the   *)
(* state in which the submission has already been handled.                  *)

\* The Score vote of LoopOpened after its user has opened the prompt of
\* choice 0, entered "6.0" and pressed Submit, and the handler has edited
\* the public count and answered with the results.  The arrivals are
\* numbered from this state on.
LoopSubmitted ==
    LET uid == CHOOSE u \in Users : TRUE
        votes == [CastVotes_new(VOTE_SCORE) EXCEPT !.m = (0 :> parse_f32("6.0").v)]
        uv1 == (uid :> [votes |-> votes, votemsg |-> 1, page |-> 0])
        subs == (uid :> get_ballot(votes, 2))
    IN  /\ votetype = VOTE_SCORE
        /\ size = 2
        /\ vote_once = FALSE
        /\ show_at_timeout = TRUE
        /\ stage = "vote"
        /\ take_sugs = FALSE
        /\ queue = [c \in Range(Collectors) |-> <<>>]
        /\ timedout = {}
        /\ pc = "select"
        /\ cur = NoInteraction
        /\ lock = "free"
        /\ arrived = NoInteraction
        /\ applied = [u \in Users |-> 0]
        /\ owner = <<uid>>
        /\ uservotes = uv1
        /\ submittedvotes = subs
        /\ num_votes = 1
        /\ nextmsg = 2
        /\ shown = [u \in Users |-> IF u = uid THEN "ballot" ELSE "none"]
        /\ prompt = [u \in Users |-> NoPrompt]
        /\ last = [Ran("submit", uid) EXCEPT !.dosubmit = TRUE,
                                             !.valid_submission = TRUE,
                                             !.isfirst = TRUE,
                                             !.showresults = TRUE]
        /\ \E hm \in hash_orders(subs) :
              out = <<setup_base_message(1), get_results(uid, subs, hm)>>
        /\ steps = 4

TallySpec == LoopSubmitted /\ [][LoopNext]_vars


\* The sum of what the stored ballots of the users `us` give choice c.
RECURSIVE C33_Sum(_, _)
C33_Sum(us, c) ==
    IF us = {} THEN F(0)
    ELSE LET u == CHOOSE u \in us : TRUE
         IN  fadd(submittedvotes[u].m[c], C33_Sum(us \ {u}, c))

\* A step changes the stored ballots or the public count only by handling
\* an accepted Submit, which stores a copy of the ballot of its user and
\* leaves every other stored ballot as it is.
C33_OnlySubmitStores ==
    /\ DOMAIN submittedvotes \subseteq DOMAIN submittedvotes'
    /\ (submittedvotes' # submittedvotes \/ num_votes' # num_votes) =>
          /\ steps' = steps + 1
          /\ last'.op = "submit" /\ last'.dosubmit /\ last'.valid_submission
          /\ submittedvotes' =
                Insert(submittedvotes, last'.uid,
                       get_ballot(uservotes[last'.uid].votes, size))
          /\ num_votes' = Cardinality(DOMAIN submittedvotes')
    /\ (steps' = steps + 1 /\ last'.op \in {"open", "nav", "toggle", "value"}) =>
          submittedvotes' = submittedvotes /\ num_votes' = num_votes

\* The last edit of a vote that shows its results counts every stored
\* ballot once: as many voters as stored ballots, and for every choice the
\* sum of the stored scores.
C33_FinalTallyOfStored ==
    (stage = "vote" /\ stage' = "closed") =>
        /\ out'[1].d = "results"
        /\ out'[1].n = Cardinality(DOMAIN submittedvotes)
        /\ DOMAIN out'[1].totals = Idx(size)
        /\ \A c \in Idx(size) :
              out'[1].totals[c] = C33_Sum(DOMAIN submittedvotes, c)

\* C33: opening the ballot, turning its pages, toggling a choice and
\* entering a value never change the stored ballots or the voter count; a
\* stored ballot is a copy that changes only when another Submit of its
\* user is accepted, and the final tally counts each stored ballot once.
C33_StoredBallotCountedOnce ==
    /\ [][C33_OnlySubmitStores]_vars
    /\ [][C33_FinalTallyOfStored]_vars

\* The vote has ended after a user gave choice 1 a score without submitting
\* again: the final totals hold the stored 0 for it.
C33_Witness ==
    /\ stage = "closed"
    /\ \E u \in DOMAIN submittedvotes :
          /\ 1 \in DOMAIN uservotes[u].votes.m
          /\ uservotes[u].votes.m[1] = F(60000)
          /\ submittedvotes[u].m[1] = F(0)
    /\ out[1].d = "results"
    /\ out[1].n = 1
    /\ out[1].totals[1] = F(0)


----------------------------------------------------------------------------
(* Actions on a private view and the message id recorded for its user *)

\* The private view uid has now: the last message sent to uid (0: none).
C34_CurrentView(uid) ==
    IF \E mid \in DOMAIN owner : owner[mid] = uid
    THEN CHOOSE mid \in DOMAIN owner :
            owner[mid] = uid /\ \A k \in DOMAIN owner : owner[k] = uid => k <= mid
    ELSE 0

\* C34: while the vote is open and no collector has timed out, a button
\* pressed on the current private view of a user is kept by the nav_col
\* filter (and so handled later), whether or not the handler of "Vote!" has
\* recorded the id of that view yet.
C34_CurrentViewActionKept ==
    [][(/\ arrived'.seq = arrived.seq + 1
        /\ stage = "vote"
        /\ timedout = {}
        /\ arrived'.col = "nav_col"
        /\ arrived'.uid \in Users
        /\ arrived'.mid = C34_CurrentView(arrived'.uid))
       => arrived'.kept]_vars

\* A button of the view that "Vote!" has just sent is pressed while the
\* handler waits for the id of that view; the filter drops it.
C34_PressedBeforeRecorded ==
    /\ pc = "await"
    /\ cur.col = "mainbtn_col"
    /\ arrived.col = "nav_col"
    /\ arrived.uid = cur.uid
    /\ arrived.mid = cur.newmsg
    /\ arrived.mid = C34_CurrentView(cur.uid)
    /\ uservotes[cur.uid].votemsg # cur.newmsg
    /\ ~arrived.kept

\* Once the id is recorded, the buttons of the current view are kept.
C34_RecordedViewActionKept ==
    [][(/\ arrived'.seq = arrived.seq + 1
        /\ stage = "vote"
        /\ timedout = {}
        /\ arrived'.col = "nav_col"
        /\ arrived'.uid \in Users
        /\ arrived'.mid = C34_CurrentView(arrived'.uid)
        /\ ~(pc = "await" /\ cur.col = "mainbtn_col" /\ cur.uid = arrived'.uid))
       => arrived'.kept]_vars


\* The interaction that arrives in this step comes from a message that is
\* not the one recorded for its user (or the user has no entry).
C35_FromOtherView ==
    /\ arrived'.seq = arrived.seq + 1
    /\ arrived'.col \in {"nav_col", "mod_col"}
    /\ \/ arrived'.uid \notin DOMAIN uservotes
       \/ arrived'.mid # uservotes[arrived'.uid].votemsg

\* C35: an interaction of a message other than the one recorded for its
\* user is dropped by the filter of its collector: it enters no queue, no
\* handler runs for it, the vote state is unchanged and nothing is sent.
C35_OtherViewFilteredOut ==
    /\ [][C35_FromOtherView =>
            /\ ~arrived'.kept
            /\ UNCHANGED <<queue, uservotes, submittedvotes, num_votes, nextmsg,
                           shown, last, out, steps, stage, owner, pc, cur>>]_vars
    /\ [](\A c \in Range(Collectors) : \A j \in DOMAIN queue[c] : queue[c][j].kept)
    /\ [](pc = "await" => cur.kept)

\* A user who pressed "Vote!" twice presses a button of the first view
\* after the id of the second was recorded: the press is dropped.
C35_Witness ==
    /\ arrived.col = "nav_col"
    /\ arrived.uid \in DOMAIN uservotes
    /\ arrived.mid \in DOMAIN owner
    /\ owner[arrived.mid] = arrived.uid
    /\ arrived.mid < uservotes[arrived.uid].votemsg
    /\ ~arrived.kept
    /\ stage = "vote"
    /\ timedout = {}

\* An interaction that was kept while its view was the recorded one is
\* handled after a later "Vote!" of the same user has replaced that view.
C35_HandledAfterSuperseded ==
    /\ pc = "await"
    /\ cur.col = "nav_col"
    /\ cur.mid # uservotes[cur.uid].votemsg


----------------------------------------------------------------------------
(* The lookups of the entry of a user *)

\* Every lookup of uservotes by a handler, by the sending of a private view
\* or by the recording of its id finds the entry of the user.
C36_EntryFound ==
    /\ stage # "aborted"
    /\ last.op # "panic"
    /\ \A c \in {"nav_col", "mod_col"} : \A i \in DOMAIN queue[c] :
          ~Panics(queue[c][i])
    /\ pc = "await" => cur.uid \in DOMAIN uservotes
    /\ \A mid \in DOMAIN owner : owner[mid] \in DOMAIN uservotes
    /\ last.op \in {"open", "nav", "toggle", "value", "submit"} =>
          last.uid \in DOMAIN uservotes

\* C36: the panics for a missing entry of uservotes are unreachable: the
\* entry exists before a private view of its user does, entries are never
\* removed, and nav_col and mod_col keep only interactions of users with an
\* entry, so every handler and every private view finds the entry.
C36_MissingEntryPanicsUnreachable ==
    /\ []C36_EntryFound
    /\ [][DOMAIN uservotes \subseteq DOMAIN uservotes']_vars

\* The handler of a modal has found the entry of its user and waits at its
\* response while nav_col holds a button press for the next handler.
C36_Witness ==
    /\ stage = "vote"
    /\ pc = "await"
    /\ cur.col = "mod_col"
    /\ last.op = "value"
    /\ cur.uid \in DOMAIN uservotes
    /\ queue["nav_col"] # <<>>


----------------------------------------------------------------------------
(* What the private view shows for a choice, against what Submit accepts *)

\* item_note of create_user_message: what the button of choice vali shows
\* for the votes of its user among n values: whether it is selected, its
\* score or 0.0, its rank or n.
item_note(votes, vali, n) ==
    CASE votes.tag = "Select" -> vali \in Range(votes.v)
      [] votes.tag = "Score" ->
            IF vali \in DOMAIN votes.m THEN votes.m[vali] ELSE F(0)
      [] OTHER ->
            IF vali \in DOMAIN votes.m THEN votes.m[vali] ELSE n

\* The view of uid shows a rank 1..size on the button of every choice.
C37_RanksRendered(uid) ==
    \A c \in Idx(size) : item_note(uservotes[uid].votes, c, size) \in 1 .. size

\* C37: in a Borda vote, when the private view of a user shows a rank in
\* 1..N for every choice, the Submit of that user is accepted and the
\* stored rank of every choice is the one shown.
C37_RenderedRanksAccepted ==
    [][\A uid \in Users :
          (/\ votetype = VOTE_BORDA
           /\ Handled("submit", uid)
           /\ last'.dosubmit
           /\ C37_RanksRendered(uid))
          => /\ last'.valid_submission
             /\ uid \in DOMAIN submittedvotes'
             /\ \A c \in Idx(size) :
                   /\ c \in DOMAIN submittedvotes'[uid].m
                   /\ submittedvotes'[uid].m[c] =
                         item_note(uservotes[uid].votes, c, size)]_vars

\* A Borda ballot whose view shows a rank for every choice, one of them
\* never assigned, was submitted and rejected.
C37_ShownRankRejected ==
    /\ votetype = VOTE_BORDA
    /\ last.op = "submit"
    /\ last.dosubmit
    /\ ~last.valid_submission
    /\ C37_RanksRendered(last.uid)
    /\ \E c \in Idx(size) : c \notin DOMAIN uservotes[last.uid].votes.m

\* When every choice has an assigned rank, Submit is accepted and stores
\* the ranks shown.
C37_AssignedRanksAccepted ==
    [][\A uid \in Users :
          (/\ votetype = VOTE_BORDA
           /\ Handled("submit", uid)
           /\ last'.dosubmit
           /\ DOMAIN uservotes[uid].votes.m = Idx(size))
          => /\ last'.valid_submission
             /\ \A c \in Idx(size) :
                   submittedvotes'[uid].m[c] =
                      item_note(uservotes[uid].votes, c, size)]_vars


----------------------------------------------------------------------------
(* Validation before the ballot is filled *)

\* C38: the votes of a Submit are validated as the user has them, and the
\* ballot is made from them only if they are valid; a valid Borda ballot
\* has a rank for every choice, so making the ballot fills nothing in: the
\* stored ranks are exactly the ranks the user assigned, and the default
\* rank size - 1 of get_ballot is never filled into a stored ballot.
C38_StoredRanksAssigned ==
    /\ [](votetype = VOTE_BORDA =>
            \A u \in DOMAIN submittedvotes :
               /\ submittedvotes[u].tag = "Rank"
               /\ DOMAIN submittedvotes[u].m = Idx(size)
               /\ \A c \in Idx(size) : submittedvotes[u].m[c] \in 1 .. size)
    /\ [][\A uid \in Users :
            (votetype = VOTE_BORDA /\ Handled("submit", uid) /\ last'.dosubmit) =>
               /\ last'.valid_submission =
                     are_valid(uservotes[uid].votes, votetype, size)
               /\ IF last'.valid_submission
                  THEN /\ uid \in DOMAIN submittedvotes'
                       /\ submittedvotes'[uid] = uservotes[uid].votes
                       /\ DOMAIN uservotes[uid].votes.m = Idx(size)
                  ELSE submittedvotes' = submittedvotes]_vars

\* A complete Borda ballot was accepted and stored as the user has it; the
\* rank size - 1 in it is one the user assigned.
C38_Witness ==
    /\ votetype = VOTE_BORDA
    /\ last.op = "submit"
    /\ last.valid_submission
    /\ last.uid \in DOMAIN submittedvotes
    /\ submittedvotes[last.uid] = uservotes[last.uid].votes
    /\ \E c \in Idx(size) : submittedvotes[last.uid].m[c] = size - 1

\* An incomplete Borda ballot was submitted: it is rejected and not stored.
C38_IncompleteRejected ==
    /\ votetype = VOTE_BORDA
    /\ last.op = "submit"
    /\ last.dosubmit
    /\ ~last.valid_submission
    /\ DOMAIN uservotes[last.uid].votes.m # Idx(size)
    /\ DOMAIN uservotes[last.uid].votes.m # {}
    /\ last.uid \notin DOMAIN submittedvotes


----------------------------------------------------------------------------
(* The results sent to the user whose Submit was accepted *)

\* C39: the results sent right after an accepted Submit are computed from
\* submittedvotes as it is after the ballot was stored: they go to the
\* submitting user, count the ballot just stored (for Approval every choice
\* of it has at least one vote), and name as many voters as submittedvotes
\* has keys.
C39_ResultsIncludeAccepted ==
    [][\A uid \in Users :
          (Handled("submit", uid) /\ last'.dosubmit /\ last'.valid_submission) =>
             /\ last'.showresults
             /\ out' # <<>>
             /\ LET r == out'[Len(out')]
                IN  /\ r.d = "results"
                    /\ r.to = uid
                    /\ uid \in DOMAIN submittedvotes'
                    /\ submittedvotes'[uid] = get_ballot(uservotes[uid].votes, size)
                    /\ r.n = Cardinality(DOMAIN submittedvotes')
                    /\ \E hm \in hash_orders(submittedvotes') :
                          r = get_results(uid, submittedvotes', hm)
                    /\ votetype = VOTE_APPROVAL =>
                          \A c \in Range(submittedvotes'[uid].v) :
                             c \in DOMAIN r.totals /\ r.totals[c] >= 1]_vars

\* The second voter's first ballot was accepted: the results sent to them
\* name two voters.
C39_Witness ==
    /\ last.op = "submit"
    /\ last.valid_submission
    /\ last.isfirst
    /\ Cardinality(DOMAIN submittedvotes) = 2
    /\ LastResults.d = "results"
    /\ LastResults.to = last.uid
    /\ LastResults.n = 2

============================================================================
